---- MODULE Spec2Model ----
(***************************************************************************)
(* A model of the line-protocol channel of the Vrroom configurator         *)
(* (src/app.py, class VrroomConnection and the /api/vrroom/* endpoints     *)
(* that drive it).                                                         *)
(*                                                                         *)
(* Text is modelled as Python holds it: a string is a sequence of          *)
(* one-character strings, so that strip, split, lower, startswith and      *)
(* endswith are computed, not assumed.                                     *)
(***************************************************************************)
EXTENDS Integers, Sequences, FiniteSets, TLC

(***************************************************************************)
(* Text                                                                    *)
(***************************************************************************)
CR == "\r"
LF == "\n"
SP == " "
CRLF == <<CR, LF>>

\* An octet that is not valid UTF-8: bytes.decode('utf-8') raises on it.
BadByte == "?"

\* The characters str.strip() and str.split() treat as whitespace.
Whitespace == {SP, "\t", CR, LF}

UpperLetters == <<"A","B","C","D","E","F","G","H","I","J","K","L","M",
                  "N","O","P","Q","R","S","T","U","V","W","X","Y","Z">>
LowerLetters == <<"a","b","c","d","e","f","g","h","i","j","k","l","m",
                  "n","o","p","q","r","s","t","u","v","w","x","y","z">>

\* One letter's other case, as a table.
LowerTable == [c \in {UpperLetters[i] : i \in 1..Len(UpperLetters)} |->
                 LowerLetters[CHOOSE i \in 1..Len(UpperLetters) : UpperLetters[i] = c]]
UpperTable == [c \in {LowerLetters[i] : i \in 1..Len(LowerLetters)} |->
                 UpperLetters[CHOOSE i \in 1..Len(LowerLetters) : LowerLetters[i] = c]]

LowerChar(c) == IF c \in DOMAIN LowerTable THEN LowerTable[c] ELSE c

UpperChar(c) == IF c \in DOMAIN UpperTable THEN UpperTable[c] ELSE c

\* str.lower() and str.upper()
Lower(s) == [i \in 1..Len(s) |-> LowerChar(s[i])]
Upper(s) == [i \in 1..Len(s) |-> UpperChar(s[i])]

\* str.startswith(p) and str.endswith(p)
StartsWith(s, p) == Len(s) >= Len(p) /\ SubSeq(s, 1, Len(p)) = p
EndsWith(s, p) == Len(s) >= Len(p) /\ SubSeq(s, Len(s) - Len(p) + 1, Len(s)) = p

\* p in s, for strings
Contains(s, p) ==
    \E i \in 1..(Len(s) - Len(p) + 1) : SubSeq(s, i, i + Len(p) - 1) = p

\* str.strip(): leading and trailing whitespace removed, the inside kept.
Strip(s) ==
    LET keep == {i \in 1..Len(s) : s[i] \notin Whitespace}
    IN  IF keep = {} THEN <<>>
        ELSE LET lo == CHOOSE i \in keep : \A j \in keep : i <= j
                 hi == CHOOSE i \in keep : \A j \in keep : i >= j
             IN  SubSeq(s, lo, hi)

\* The first position from i on whose character is (white = TRUE) or is not
\* (white = FALSE) whitespace; Len(s) + 1 if there is none.
Scan(s, i, white) ==
    LET hits == {j \in i..Len(s) : (s[j] \in Whitespace) = white}
    IN  IF hits = {} THEN Len(s) + 1
        ELSE CHOOSE j \in hits : \A k \in hits : j <= k

\* str.split(): the maximal runs of non-whitespace, in order.
RECURSIVE SplitFrom(_, _)
SplitFrom(s, i) ==
    IF Scan(s, i, FALSE) > Len(s) THEN <<>>
    ELSE <<SubSeq(s, Scan(s, i, FALSE), Scan(s, Scan(s, i, FALSE), TRUE) - 1)>>
           \o SplitFrom(s, Scan(s, Scan(s, i, FALSE), TRUE))

Split(s) == SplitFrom(s, 1)

\* The CRLF-terminated lines of a byte stream, each without its CRLF
\* (an unterminated tail is not a line).
RECURSIVE LinesFrom(_, _, _)
LinesFrom(s, i, line) ==
    IF i > Len(s) THEN <<>>
    ELSE IF i < Len(s) /\ s[i] = CR /\ s[i + 1] = LF
         THEN <<line>> \o LinesFrom(s, i + 2, <<>>)
         ELSE LinesFrom(s, i + 1, Append(line, s[i]))

Lines(s) == LinesFrom(s, 1, <<>>)

(***************************************************************************)
(* The fixed vocabulary of the protocol, spelled out character by         *)
(* character: K_<word> is the Python string "<word>".                      *)
(***************************************************************************)
K_opmode == <<"o","p","m","o","d","e">>
K_insel == <<"i","n","s","e","l">>
K_dhcp == <<"d","h","c","p">>
K_ipaddr == <<"i","p","a","d","d","r">>
K_autosw == <<"a","u","t","o","s","w">>
K_edidmode == <<"e","d","i","d","m","o","d","e">>
K_edidfrlflag == <<"e","d","i","d","f","r","l","f","l","a","g">>
K_edidfrlmode == <<"e","d","i","d","f","r","l","m","o","d","e">>
K_edidvrrflag == <<"e","d","i","d","v","r","r","f","l","a","g">>
K_edidallmflag == <<"e","d","i","d","a","l","l","m","f","l","a","g">>
K_edidhdrflag == <<"e","d","i","d","h","d","r","f","l","a","g">>
K_edidhdrmode == <<"e","d","i","d","h","d","r","m","o","d","e">>
K_ediddvflag == <<"e","d","i","d","d","v","f","l","a","g">>
K_ediddvmode == <<"e","d","i","d","d","v","m","o","d","e">>
K_edidtruehdflag == <<"e","d","i","d","t","r","u","e","h","d","f","l","a","g">>
K_edidtruehdmode == <<"e","d","i","d","t","r","u","e","h","d","m","o","d","e">>
K_edidddflag == <<"e","d","i","d","d","d","f","l","a","g">>
K_edidddplusflag == <<"e","d","i","d","d","d","p","l","u","s","f","l","a","g">>
K_ediddtsflag == <<"e","d","i","d","d","t","s","f","l","a","g">>
K_ediddtshdflag == <<"e","d","i","d","d","t","s","h","d","f","l","a","g">>
K_edidpcmflag == <<"e","d","i","d","p","c","m","f","l","a","g">>
K_edidpcmchmode == <<"e","d","i","d","p","c","m","c","h","m","o","d","e">>
K_hdcp == <<"h","d","c","p">>
K_hdrcustom == <<"h","d","r","c","u","s","t","o","m">>
K_hdrdisable == <<"h","d","r","d","i","s","a","b","l","e">>
K_cec == <<"c","e","c">>
K_earcforce == <<"e","a","r","c","f","o","r","c","e">>
K_jvcmacro == <<"j","v","c","m","a","c","r","o">>
K_oled == <<"o","l","e","d">>
K_oledfade == <<"o","l","e","d","f","a","d","e">>
K_rx0 == <<"r","x","0">>
K_tx0 == <<"t","x","0">>
K_tx1 == <<"t","x","1">>
K_tx0sink == <<"t","x","0","s","i","n","k">>
K_tx1sink == <<"t","x","1","s","i","n","k">>
K_aud0 == <<"a","u","d","0">>
K_audout == <<"a","u","d","o","u","t">>
K_lldv == <<"l","l","d","v">>
K_vrr == <<"v","r","r">>
K_allm == <<"a","l","l","m">>
K_frl == <<"f","r","l">>
K_earc == <<"e","a","r","c">>
K_audioout == <<"a","u","d","i","o","o","u","t">>
K_unmutedelay == <<"u","n","m","u","t","e","d","e","l","a","y">>
K_downscale == <<"d","o","w","n","s","c","a","l","e">>
K_rx1 == <<"r","x","1">>
K_spd0 == <<"s","p","d","0">>
K_spd1 == <<"s","p","d","1">>
K_active_input == <<"a","c","t","i","v","e","_","i","n","p","u","t">>

\* VrroomConnection.SETTINGS_TO_QUERY
SETTINGS_TO_QUERY == <<
    K_opmode, K_insel, K_dhcp, K_ipaddr, K_autosw,
    K_edidmode, K_edidfrlflag, K_edidfrlmode, K_edidvrrflag, K_edidallmflag,
    K_edidhdrflag, K_edidhdrmode, K_ediddvflag, K_ediddvmode, K_edidtruehdflag,
    K_edidtruehdmode, K_edidddflag, K_edidddplusflag, K_ediddtsflag, K_ediddtshdflag,
    K_edidpcmflag, K_edidpcmchmode, K_hdcp, K_hdrcustom, K_hdrdisable,
    K_cec, K_earcforce, K_jvcmacro, K_oled, K_oledfade >>

\* VrroomConnection.STATUS_QUERIES
STATUS_QUERIES == <<
    K_rx0, K_tx0, K_tx1, K_tx0sink, K_tx1sink,
    K_aud0, K_audout >>

\* edid_settings of diagnose_hdr_signal_chain
edid_settings == <<
    K_edidmode, K_ediddvflag, K_ediddvmode, K_edidhdrflag, K_edidhdrmode,
    K_hdrcustom, K_lldv, K_hdrdisable >>

\* all_settings of get_all_settings_detailed
all_settings == <<
    K_opmode, K_insel, K_autosw, K_edidmode, K_ediddvflag,
    K_ediddvmode, K_edidhdrflag, K_edidhdrmode, K_edidvrrflag, K_edidallmflag,
    K_edidfrlflag, K_edidfrlmode, K_hdrcustom, K_hdrdisable, K_vrr,
    K_allm, K_frl, K_earc, K_earcforce, K_audioout,
    K_unmutedelay, K_downscale, K_cec, K_hdcp, K_oled,
    K_oledfade, K_jvcmacro, K_edidtruehdflag, K_edidtruehdmode, K_edidddflag,
    K_edidddplusflag, K_ediddtsflag, K_ediddtshdflag, K_edidpcmflag, K_edidpcmchmode >>

\* Words of the protocol and of the code's comparisons.
T_get == <<"g","e","t">>
T_set == <<"s","e","t">>
T_status == <<"s","t","a","t","u","s">>
T_get_ == <<"g","e","t"," ">>
T_set_ == <<"s","e","t"," ">>
T_error == <<"e","r","r","o","r">>
T_unknown == <<"u","n","k","n","o","w","n">>
T_no_signal == <<"n","o"," ","s","i","g","n","a","l">>
T_on == <<"o","n">>
T_off == <<"o","f","f">>
T_automix == <<"a","u","t","o","m","i","x">>
T_custom == <<"c","u","s","t","o","m">>
T_fixed == <<"f","i","x","e","d">>

\* Status lines a box may answer with.
R_dv_2160p60 == <<"3","8","4","0","x","2","1","6","0","p","6","0"," ","4","2","2"," ","1","2","b"," ","D","V"," ","B","T","2","0","2","0">>
R_sdr_1080p60 == <<"1","9","2","0","x","1","0","8","0","p","6","0"," ","4","4","4"," ","8","b">>
R_hlg_1080i50 == <<"1","9","2","0","x","1","0","8","0","i","5","0"," ","R","G","B"," ","H","L","G">>
R_hdr10_2160p60 == <<"3","8","4","0","x","2","1","6","0","p","6","0"," ","4","2","0"," ","1","0","b"," ","H","D","R"," ","B","T","2","0","2","0">>
R_no_signal == <<"n","o"," ","s","i","g","n","a","l">>
R_No_Signal == <<"N","o"," ","S","i","g","n","a","l">>
R_spd_dv == <<"A","p","p","l","e","T","V"," ","D","V">>
R_spd_hdr == <<"S","h","i","e","l","d"," ","H","D","R">>
R_sink_all == <<"H","D","R"," ","D","V"," ","V","R","R">>
R_sink_hlg == <<"H","L","G">>
R_pcm == <<"P","C","M"," ","2",".","0">>
R_ERROR == <<"E","R","R","O","R">>
R_Unknown == <<"U","n","k","n","o","w","n">>
R_0 == <<"0">>

(***************************************************************************)
(* The box behind the socket.  What a box answers is input to the program: *)
(* two boxes are given, differing in every stage of the signal chain and   *)
(* in the shape of their answers (echo-prefixed, bare, sentinel, none).    *)
(* A third, "boxC", has no source on either input and answers settings as  *)
(* boxB does.  A fourth, "boxD", has a source on both inputs, Dolby Vision *)
(* on the first and HLG on the second, and answers settings as boxB does.  *)
(***************************************************************************)
Devices == {"boxA", "boxB"}

\* The answer of box d to "get status <port>".
StatusReply(d, port) ==
    IF d = "boxA" THEN
        CASE port = K_rx0     -> R_dv_2160p60
          [] port = K_rx1     -> R_no_signal
          [] port = K_spd0    -> R_spd_dv
          [] port = K_spd1    -> <<>>
          [] port = K_tx0     -> R_sdr_1080p60
          [] port = K_tx1     -> <<>>
          [] port = K_tx0sink -> R_sink_all
          [] port = K_tx1sink -> R_sink_hlg
          [] OTHER            -> R_pcm
    ELSE IF d = "boxD" THEN
        CASE port = K_rx0     -> R_dv_2160p60
          [] port = K_rx1     -> R_hlg_1080i50
          [] port = K_tx0     -> R_hdr10_2160p60
          [] OTHER            -> <<>>
    ELSE IF d = "boxC" THEN
        CASE port = K_rx0     -> R_no_signal
          [] port = K_rx1     -> <<>>
          [] port = K_tx0     -> R_sdr_1080p60
          [] port = K_tx0sink -> R_sink_hlg
          [] OTHER            -> <<>>
    ELSE
        CASE port = K_rx0     -> R_No_Signal
          [] port = K_rx1     -> R_hlg_1080i50
          [] port = K_spd0    -> <<>>
          [] port = K_spd1    -> R_spd_hdr
          [] port = K_tx0     -> R_hdr10_2160p60
          [] port = K_tx1     -> R_sdr_1080p60
          [] port = K_tx0sink -> <<>>
          [] port = K_tx1sink -> R_sink_all
          [] OTHER            -> <<>>

\* The answer of box d to "get <key>".
SettingReply(d, key) ==
    IF d = "boxA" THEN
        CASE key = K_edidmode    -> key \o <<SP>> \o T_fixed
          [] key = K_edidhdrflag -> key \o <<SP>> \o T_off
          [] key = K_hdrdisable  -> T_on
          [] key = K_ediddvflag  -> T_error
          [] key = K_hdrcustom   -> R_Unknown
          [] key = K_lldv        -> <<>>
          [] key = K_dhcp        -> R_ERROR
          [] key = K_opmode      -> key \o <<SP>> \o T_error
          [] key = K_insel       -> key \o <<SP>> \o R_0
          [] OTHER               -> key \o <<SP>> \o T_on
    ELSE
        CASE key = K_edidmode    -> T_automix
          [] key = K_ediddvflag  -> key \o <<SP>> \o T_on
          [] key = K_cec         -> T_unknown
          [] key = K_hdcp        -> <<>>
          [] OTHER               -> key \o <<SP>> \o T_off

\* The answer of box d to one command line.
Reply(d, command) ==
    LET words == Split(command)
    IN  IF Len(words) >= 3 /\ Lower(words[1]) = T_get /\ words[2] = T_status
        THEN StatusReply(d, words[3])
        ELSE IF Len(words) >= 2 /\ Lower(words[1]) = T_get
        THEN SettingReply(d, words[2])
        ELSE IF Len(words) >= 3 /\ Lower(words[1]) = T_set
        THEN words[2] \o <<SP>> \o words[3]
        ELSE T_error

\* What socket.recv can deliver: bytes, nothing before the timeout, the
\* peer's orderly close (b""), or a socket error.
DataEv(bytes) == [kind |-> "data", bytes |-> bytes]
TimeoutEv == [kind |-> "timeout", bytes |-> <<>>]
EofEv == [kind |-> "data", bytes |-> <<>>]
ErrorEv == [kind |-> "error", bytes |-> <<>>]

\* How one exchange can go.  "ok": the box answers one CRLF-terminated
\* line.  The others are the faults of an unreliable peer: the write fails,
\* the connection is reset while reading, the box stays silent until the
\* read times out, or the box answers bytes that are not UTF-8.
FaultModes == {"sendfail", "reset", "silent", "garbled"}
Modes == {"ok"} \cup FaultModes

\* The ways a slow box answers: the whole line after the read has timed out,
\* the line in two segments that both arrive in time, or in two segments
\* with the read timing out between them.
LateModes == {"late", "pieces", "slowpieces"}

\* The first segment of a line sent in two segments, and the rest.
FirstPiece(line) == SubSeq(line, 1, Len(line) \div 2)
SecondPiece(line) == SubSeq(line, Len(line) \div 2 + 1, Len(line))

\* What arrives at the socket when the peer answers `line`, under `mode`.
Arrivals(line, mode) ==
    CASE mode = "ok"      -> <<DataEv(line)>>
      [] mode = "reset"   -> <<ErrorEv>>
      [] mode = "garbled" -> <<DataEv(<<BadByte>> \o CRLF)>>
      [] mode = "late"    -> <<TimeoutEv, DataEv(line)>>
      [] mode = "pieces"  -> <<DataEv(FirstPiece(line)), DataEv(SecondPiece(line))>>
      [] mode = "slowpieces" ->
                             <<DataEv(FirstPiece(line)), TimeoutEv,
                               DataEv(SecondPiece(line))>>
      [] OTHER            -> <<>>

\* What arrives at the socket after `command` was written, under `mode`.
PeerReply(d, command, mode) == Arrivals(Reply(d, command) \o CRLF, mode)

(***************************************************************************)
(* class VrroomConnection: the channel                                     *)
(***************************************************************************)
\* self.socket = None
None == "None"

\* A socket nobody has created yet.
NoSocket ==
    [state |-> "unopened", connected |-> FALSE, dev |-> None,
     inbox |-> <<>>, wire |-> <<>>]

\* __init__: a connection object for one address, with no socket.
NewConnection(ip_address) == [ip_address |-> ip_address, socket |-> None]

\* connect(): self.socket is assigned the new socket before the attempt to
\* connect it, so a failed attempt leaves the (open, unconnected) socket in
\* self.socket and raises ConnectionError.
connect(cn, nt, c, s, outcome) ==
    [conn   |-> [cn EXCEPT ![c].socket = s],
     net    |-> [nt EXCEPT ![s] = [state |-> "open", connected |-> outcome = "ok",
                                   dev |-> cn[c].ip_address,
                                   inbox |-> <<>>, wire |-> <<>>]],
     raised |-> outcome # "ok",
     error  |-> IF outcome = "timeout" THEN "timed out"
                ELSE IF outcome = "refused" THEN "Failed to connect" ELSE None]

ConnectOutcomes == {"ok", "timeout", "refused"}

\* variant: closes the socket and keeps it in self.socket
disconnectKeepsSocket(cn, nt, c) ==
    IF cn[c].socket # None
    THEN [conn |-> cn, net |-> [nt EXCEPT ![cn[c].socket].state = "closed"]]
    ELSE [conn |-> cn, net |-> nt]

\* disconnect(): close the socket if there is one, and forget it.
disconnect(cn, nt, c) ==
    IF cn[c].socket # None
    THEN [conn |-> [cn EXCEPT ![c].socket = None],
          net  |-> [nt EXCEPT ![cn[c].socket].state = "closed"]]
    ELSE [conn |-> cn, net |-> nt]

\* One pass of the read loop of send_command on what recv delivered:
\* "more" to read again, "break" to leave the loop, "raise" on socket.error.
RecvStep(response, ev) ==
    IF ev.kind = "error" THEN [response |-> response, next |-> "raise"]
    ELSE IF ev.kind = "timeout" THEN [response |-> response, next |-> "break"]
    ELSE IF ev.bytes = <<>> THEN [response |-> response, next |-> "break"]
    ELSE LET r == response \o ev.bytes
         IN  [response |-> r,
              next |-> IF EndsWith(r, CRLF) THEN "break" ELSE "more"]

\* The read loop on the data pending at the socket; with nothing pending
\* (and nothing more coming) recv times out.
RECURSIVE RecvLoop(_, _)
RecvLoop(response, inbox) ==
    IF inbox = <<>>
    THEN [response |-> response, inbox |-> inbox, raised |-> FALSE]
    ELSE LET st == RecvStep(response, Head(inbox))
         IN  IF st.next = "more" THEN RecvLoop(st.response, Tail(inbox))
             ELSE [response |-> st.response, inbox |-> Tail(inbox),
                   raised |-> st.next = "raise"]

\* bytes.decode('utf-8') raises UnicodeDecodeError on a malformed octet.
Decodable(bytes) == \A i \in 1..Len(bytes) : bytes[i] # BadByte

\* send_command(command): [raised, value, error] and the socket afterwards.
send_command(cn, nt, c, command, mode) ==
    LET s == cn[c].socket IN
    IF s = None
    THEN [raised |-> TRUE, error |-> "Not connected", value |-> <<>>, net |-> nt]
    ELSE IF nt[s].state # "open" \/ mode = "sendfail"
    THEN [raised |-> TRUE, error |-> "Communication error", value |-> <<>>, net |-> nt]
    ELSE
      LET cmd   == command \o CRLF
          sent  == [nt[s] EXCEPT !.wire = @ \o cmd,
                                 !.inbox = @ \o PeerReply(nt[s].dev, command, mode)]
          got   == RecvLoop(<<>>, sent.inbox)
          after == [nt EXCEPT ![s] = [sent EXCEPT !.inbox = got.inbox]]
      IN  IF got.raised
          THEN [raised |-> TRUE, error |-> "Communication error", value |-> <<>>,
                net |-> after]
          ELSE IF ~Decodable(got.response)
          THEN [raised |-> TRUE, error |-> "UnicodeDecodeError", value |-> <<>>,
                net |-> after]
          ELSE [raised |-> FALSE, error |-> None, value |-> Strip(got.response),
                net |-> after]

\* get_setting(setting): the last token of the answer when it has two or
\* more tokens, else the whole answer.
get_setting(cn, nt, c, setting, mode) ==
    LET r == send_command(cn, nt, c, T_get_ \o setting, mode)
        parts == Split(r.value)
    IN  IF r.raised THEN r
        ELSE [r EXCEPT !.value = IF Len(parts) >= 2 THEN parts[Len(parts)] ELSE r.value]

\* set_setting(setting, value)
set_setting(cn, nt, c, setting, value, mode) ==
    send_command(cn, nt, c, T_set_ \o setting \o <<SP>> \o value, mode)

(***************************************************************************)
(* Python values                                                           *)
(***************************************************************************)
\* None where the code holds a text (or None), and where it holds an int
\* (or None): int() of a digit string is never negative.
NoneText == <<"None">>
NoneInt == -1

\* {**a, **b}: the keys of both, b's value where both have the key.
Merge(a, b) ==
    [k \in DOMAIN a \cup DOMAIN b |-> IF k \in DOMAIN b THEN b[k] ELSE a[k]]

\* d[k] = v on a dict
Put(d, k, v) == [x \in DOMAIN d \cup {k} |-> IF x = k THEN v ELSE d[x]]

\* {}
EmptyDict == [x \in {} |-> <<>>]

\* d.get(k, default)
Get(d, k, default) == IF k \in DOMAIN d THEN d[k] ELSE default

\* The first element of a sequence satisfying Test, or `default`.
First(seq, Test(_), default) ==
    IF \E i \in 1..Len(seq) : Test(seq[i])
    THEN seq[CHOOSE i \in 1..Len(seq) :
                 Test(seq[i]) /\ \A j \in 1..(i - 1) : ~Test(seq[j])]
    ELSE default

Digits == <<"0","1","2","3","4","5","6","7","8","9">>
IsDigit(c) == \E i \in 1..Len(Digits) : Digits[i] = c
DigitValue(c) == (CHOOSE i \in 1..Len(Digits) : Digits[i] = c) - 1

\* The number of digits of s from position i on (\d+ matches greedily).
DigitRun(s, i) ==
    LET stops == {j \in i..Len(s) : ~IsDigit(s[j])}
    IN  IF i > Len(s) THEN 0
        ELSE IF stops = {} THEN Len(s) - i + 1
        ELSE (CHOOSE j \in stops : \A k \in stops : j <= k) - i

\* int() refuses a string of more than this many digits with ValueError (the
\* interpreter's default limit for str -> int conversion).
int_max_str_digits == 4300

\* int() of a digit string
RECURSIVE DigitsToInt(_)
DigitsToInt(s) ==
    IF s = <<>> THEN 0
    ELSE 10 * DigitsToInt(SubSeq(s, 1, Len(s) - 1)) + DigitValue(s[Len(s)])

(***************************************************************************)
(* _parse_signal_status, _parse_spd_status, _parse_sink_capabilities       *)
(***************************************************************************)
P_DV == <<"D","V">>
P_DOLBY == <<"D","O","L","B","Y">>
P_LLDV == <<"L","L","D","V">>
P_HDR10Plus == <<"H","D","R","1","0","+">>
P_HDR10PLUS == <<"H","D","R","1","0","P","L","U","S">>
P_HDR10 == <<"H","D","R","1","0">>
P_HDR == <<"H","D","R">>
P_HLG == <<"H","L","G">>
P_BT2020 == <<"B","T","2","0","2","0">>
P_BT_2020 == <<"B","T",".","2","0","2","0">>
P_BT709 == <<"B","T","7","0","9">>
P_BT_709 == <<"B","T",".","7","0","9">>
P_VRR == <<"V","R","R">>
ColorSpaces == {<<"4","2","2">>, <<"4","4","4">>, <<"R","G","B">>, <<"4","2","0">>}

\* re.match(r'(\d+)X(\d+)([PI])(\d+)', part): the groups' extents, or no match.
ResMatch(part) ==
    LET n1 == DigitRun(part, 1)
        n2 == DigitRun(part, n1 + 2)
        n4 == DigitRun(part, n1 + n2 + 3)
    IN  [ok |-> /\ n1 >= 1
                /\ Len(part) >= n1 + 1 /\ part[n1 + 1] = "X"
                /\ n2 >= 1
                /\ Len(part) >= n1 + n2 + 2 /\ part[n1 + n2 + 2] \in {"P", "I"}
                /\ n4 >= 1,
         g1 |-> SubSeq(part, 1, n1),
         g2 |-> SubSeq(part, n1 + 2, n1 + n2 + 1),
         g3 |-> IF Len(part) >= n1 + n2 + 2 THEN part[n1 + n2 + 2] ELSE "",
         g4 |-> SubSeq(part, n1 + n2 + 3, n1 + n2 + 2 + n4)]

\* re.match(r'\d+B', part)
BitDepthMatch(part) ==
    LET n == DigitRun(part, 1)
    IN  n >= 1 /\ Len(part) >= n + 1 /\ part[n + 1] = "B"

IsResolution(part) == ResMatch(part).ok
IsColorSpace(part) == part \in ColorSpaces
IsIn(parts, word) == \E i \in 1..Len(parts) : parts[i] = word

\* The HDR format priority chain.
HdrFormat(response) ==
    LET up == Upper(response)
        parts == Split(up)
    IN  IF IsIn(parts, P_DV) \/ Contains(up, P_DOLBY)
        THEN IF Contains(up, P_LLDV) THEN "LLDV" ELSE "Dolby Vision"
        ELSE IF Contains(up, P_HDR10Plus) \/ Contains(up, P_HDR10PLUS) THEN "HDR10+"
        ELSE IF Contains(up, P_HDR10) \/ IsIn(parts, P_HDR) THEN "HDR10"
        ELSE IF IsIn(parts, P_HLG) THEN "HLG"
        ELSE "SDR"

\* The descriptor, or [raised |-> ...] when int() at the refresh rate raises.
_parse_signal_status(response, port) ==
    LET info == [raw |-> response, resolution |-> NoneText,
                 refresh_rate |-> NoneInt, color_space |-> NoneText,
                 bit_depth |-> NoneText, hdr_format |-> "SDR",
                 colorimetry |-> "None"]
        up == Upper(response)
        parts == Split(up)
        res == First(parts, IsResolution, <<>>)
        m == ResMatch(res)
        withRes == IF m.ok
                   THEN Merge(info,
                          [resolution |-> m.g1 \o <<"x">> \o m.g2,
                           refresh_rate |-> DigitsToInt(m.g4),
                           scan_type |-> IF m.g3 = "P" THEN "progressive"
                                         ELSE "interlaced"])
                   ELSE info
    IN  IF response = <<>> THEN info
        ELSE IF m.ok /\ Len(m.g4) > int_max_str_digits
        THEN [raised |-> "ValueError"]
        ELSE [withRes EXCEPT
                !.color_space = First(parts, IsColorSpace, NoneText),
                !.bit_depth = First(parts, BitDepthMatch, NoneText),
                !.hdr_format = HdrFormat(response),
                !.colorimetry =
                    IF Contains(up, P_BT2020) \/ Contains(up, P_BT_2020) THEN "BT.2020"
                    ELSE IF Contains(up, P_BT709) \/ Contains(up, P_BT_709) THEN "BT.709"
                    ELSE "None"]

_parse_spd_status(response) ==
    LET up == Upper(response)
    IN  [vendor |-> "None", product |-> "None",
         hdr_metadata |->
            IF Contains(up, P_DV) \/ Contains(up, P_DOLBY) THEN "Dolby Vision metadata"
            ELSE IF Contains(up, P_HDR) THEN "HDR metadata present"
            ELSE "None"]

_parse_sink_capabilities(response) ==
    LET up == Upper(response)
        dv == Contains(up, P_DV) \/ Contains(up, P_DOLBY)
    IN  [hdr_capable |-> Contains(up, P_HDR),
         dv_capable |-> dv,
         vrr_capable |-> Contains(up, P_VRR),
         max_resolution |-> "None",
         supported_formats |->
            (IF Contains(up, P_HDR) THEN <<"HDR10">> ELSE <<>>)
            \o (IF Contains(up, P_HLG) THEN <<"HLG">> ELSE <<>>)
            \o (IF dv THEN <<"Dolby Vision">> ELSE <<>>)]

(***************************************************************************)
(* _analyze_hdr_chain: the rule pass over an assembled diagnosis           *)
(***************************************************************************)
NoneDict == <<>>

\* s.get("connected") == False, for a chain entry s
IsDisconnected(s) == "connected" \in DOMAIN s /\ s.connected = FALSE

\* Any difference between the two formats counts as a loss.
HdrLostOnMismatch(input_hdr, output_hdr) == input_hdr # output_hdr

\* input_hdr != "SDR" and output_hdr == "SDR"
HdrLost(input_hdr, output_hdr) == input_hdr # "SDR" /\ output_hdr = "SDR"

\* One disconnected input is enough.
NoInputSome(chain) ==
    \E i \in 1..Len(chain) : chain[i].type = "input" /\ IsDisconnected(chain[i])

\* all(s.get("connected") == False for s in chain if s.get("type") == "input")
NoInput(chain) ==
    \A i \in 1..Len(chain) : chain[i].type = "input" => IsDisconnected(chain[i])

\* The rule pass leaving at the first rule that fires.
_analyze_hdr_chainEarlyExit(diagnosis) ==
    LET input_hdr == diagnosis.hdr_status.input.format
        output_hdr == diagnosis.hdr_status.output.format
    IN  IF HdrLost(input_hdr, output_hdr)
        THEN [diagnosis EXCEPT
                !.issues = << [severity |-> "critical",
                               title |-> "HDR Lost in Signal Chain",
                               description |-> <<"Input signal is", input_hdr,
                                                 "but output is SDR">>] >>,
                !.recommendations = <<>>]
        ELSE IF NoInput(diagnosis.signal_chain)
        THEN [diagnosis EXCEPT
                !.issues = << [severity |-> "warning",
                               title |-> "No Input Signal Detected",
                               description |-> <<"No active input signal detected">>] >>,
                !.recommendations = <<>>]
        ELSE [diagnosis EXCEPT !.issues = <<>>, !.recommendations = <<>>]

_analyze_hdr_chain(diagnosis) ==
    LET settings == diagnosis.settings
        input_hdr == diagnosis.hdr_status.input.format
        output_hdr == diagnosis.hdr_status.output.format
        lost == HdrLost(input_hdr, output_hdr)
        edid_mode == Lower(Get(settings, K_edidmode, <<>>))
        chain == diagnosis.signal_chain
        no_input == NoInput(chain)
        issues ==
            (IF lost
             THEN << [severity |-> "critical",
                      title |-> "HDR Lost in Signal Chain",
                      description |-> <<"Input signal is", input_hdr,
                                        "but output is SDR">>] >>
             ELSE <<>>)
            \o (IF no_input
                THEN << [severity |-> "warning",
                         title |-> "No Input Signal Detected",
                         description |-> <<"No active input signal detected">>] >>
                ELSE <<>>)
        recommendations ==
            (IF lost /\ Lower(Get(settings, K_edidhdrflag, <<>>)) = T_off
             THEN << [priority |-> "high", setting |-> K_edidhdrflag,
                      current |-> T_off, recommended |-> T_on,
                      title |-> "Enable HDR EDID Flag",
                      command |-> "#vrroom set edidhdrflag on"] >>
             ELSE <<>>)
            \o (IF lost /\ Lower(Get(settings, K_hdrdisable, <<>>)) = T_on
                THEN << [priority |-> "high", setting |-> K_hdrdisable,
                         current |-> T_on, recommended |-> T_off,
                         title |-> "Disable HDR Disable Setting",
                         command |-> "#vrroom set hdrdisable off"] >>
                ELSE <<>>)
            \o (IF input_hdr = "Dolby Vision"
                   /\ Lower(Get(settings, K_ediddvflag, <<>>)) # T_on
                THEN << [priority |-> "medium", setting |-> K_ediddvflag,
                         current |-> Get(settings, K_ediddvflag, T_unknown),
                         recommended |-> T_on,
                         title |-> "Enable Dolby Vision EDID Flag",
                         command |-> "#vrroom set ediddvflag on"] >>
                ELSE <<>>)
            \o (IF edid_mode \notin {T_automix, T_custom}
                THEN << [priority |-> "medium", setting |-> K_edidmode,
                         current |-> edid_mode, recommended |-> T_automix,
                         title |-> "Use AutoMix EDID Mode",
                         command |-> "#vrroom set edidmode automix"] >>
                ELSE <<>>)
    IN  [diagnosis EXCEPT !.issues = issues, !.recommendations = recommendations]

(***************************************************************************)
(* The operations of the channel, one query at a time.  A query of an      *)
(* operation's plan is [phase, key, value]; `out` is what the call to      *)
(* send_command / get_setting / set_setting returned or raised.            *)
(***************************************************************************)
Q(phase, key) == [phase |-> phase, key |-> key, value |-> <<>>]
Each(phase, keys) == [i \in 1..Len(keys) |-> Q(phase, keys[i])]

\* The test without .lower(): value and value not in ["error", "unknown"]
IsUsableCaseSensitive(value) == value # <<>> /\ value \notin {T_error, T_unknown}

\* value and value.lower() not in ["error", "unknown"]
IsUsable(value) == value # <<>> /\ Lower(value) \notin {T_error, T_unknown}

\* The loop body of get_all_settings.
get_all_settings(settings, setting, out) ==
    IF out.raised THEN settings
    ELSE IF IsUsable(out.value) THEN Put(settings, setting, out.value)
    ELSE settings

\* The loop body of get_status.
get_status(status, query, out) ==
    IF out.raised THEN status
    ELSE IF out.value # <<>> THEN Put(status, query, out.value)
    ELSE status

\* The loop body of apply_settings without its `except` branch's entry.
ApplyOneDropFailed(results, setting, out) ==
    IF out.raised THEN results
    ELSE Put(results, setting, [success |-> TRUE, response |-> out.value])

\* The loop body of apply_settings counting a key as set only on an answer
\* that is neither empty nor an error text.
ApplyOneNeedsReply(results, setting, out) ==
    IF out.raised
    THEN Put(results, setting, [success |-> FALSE, error |-> out.error])
    ELSE IF out.value = <<>> \/ Lower(out.value) = T_error
    THEN Put(results, setting, [success |-> FALSE, error |-> out.value])
    ELSE Put(results, setting, [success |-> TRUE, response |-> out.value])

\* The loop body of apply_settings.
ApplyOne(results, setting, out) ==
    IF out.raised
    THEN Put(results, setting, [success |-> FALSE, error |-> out.error])
    ELSE Put(results, setting, [success |-> TRUE, response |-> out.value])

\* The loop body of get_all_settings_detailed (the entry's display
\* metadata is a lookup in a static table and is left out).
DetailOne(settings_list, setting, out) ==
    IF out.raised THEN settings_list
    ELSE IF IsUsable(out.value)
    THEN Append(settings_list,
                [key |-> setting, value |-> out.value, can_modify |-> TRUE])
    ELSE settings_list

\* The queries of detect_inputs: `detected` holds the two inputs and, after
\* the query of the selection, "active_input" beside them.
DetectOne(detected, q, out) ==
    IF q.phase = "insel"
    THEN [detected EXCEPT !.inputs =
              Put(@, K_active_input, IF out.raised THEN NoneText ELSE out.value)]
    ELSE IF out.raised THEN detected
    ELSE IF out.value # <<>> /\ ~Contains(Lower(out.value), T_no_signal)
    THEN LET parts == Split(out.value)
         IN  [detected EXCEPT !.inputs[q.key] =
                 [connected |-> TRUE, signal |-> out.value,
                  resolution |-> IF parts # <<>> THEN parts[1] ELSE NoneText]]
    ELSE detected

S_Input == <<"I","n","p","u","t"," ">>
S_SPD == <<"S","P","D"," ">>
S_Output == <<"O","u","t","p","u","t"," ">>
S_Sink == <<"S","i","n","k"," ">>

\* Step 1 keeping the format of the first input that carries one.
DiagInputFirstWins(diagnosis, rx, out) ==
    LET stage == S_Input \o Upper(rx)
        signal_info == _parse_signal_status(out.value, rx)
        entry ==
            IF out.raised
            THEN [stage |-> stage, type |-> "input", error |-> out.error]
            ELSE IF out.value # <<>> /\ ~Contains(Lower(out.value), T_no_signal)
            THEN IF "raised" \in DOMAIN signal_info
                 THEN [stage |-> stage, type |-> "input",
                       error |-> signal_info.raised]
                 ELSE Merge([stage |-> stage, type |-> "input",
                             connected |-> TRUE], signal_info)
            ELSE [stage |-> stage, type |-> "input", connected |-> FALSE,
                  raw |-> out.value]
        hdr == ~out.raised /\ out.value # <<>>
               /\ ~Contains(Lower(out.value), T_no_signal)
               /\ "raised" \notin DOMAIN signal_info
               /\ signal_info.hdr_format # "SDR"
               /\ diagnosis.hdr_status.input.format = "SDR"
    IN  [diagnosis EXCEPT
            !.signal_chain = Append(@, entry),
            !.hdr_status.input =
                IF hdr THEN [detected |-> TRUE, format |-> signal_info.hdr_format,
                             details |-> signal_info]
                ELSE @]

\* Step 1 of diagnose_hdr_signal_chain, for one input port.
DiagInput(diagnosis, rx, out) ==
    LET stage == S_Input \o Upper(rx)
        signal_info == _parse_signal_status(out.value, rx)
        entry ==
            IF out.raised
            THEN [stage |-> stage, type |-> "input", error |-> out.error]
            ELSE IF out.value # <<>> /\ ~Contains(Lower(out.value), T_no_signal)
            THEN IF "raised" \in DOMAIN signal_info
                 THEN [stage |-> stage, type |-> "input",
                       error |-> signal_info.raised]
                 ELSE Merge([stage |-> stage, type |-> "input",
                             connected |-> TRUE], signal_info)
            ELSE [stage |-> stage, type |-> "input", connected |-> FALSE,
                  raw |-> out.value]
        hdr == ~out.raised /\ out.value # <<>>
               /\ ~Contains(Lower(out.value), T_no_signal)
               /\ "raised" \notin DOMAIN signal_info
               /\ signal_info.hdr_format # "SDR"
    IN  [diagnosis EXCEPT
            !.signal_chain = Append(@, entry),
            !.hdr_status.input =
                IF hdr THEN [detected |-> TRUE, format |-> signal_info.hdr_format,
                             details |-> signal_info]
                ELSE @]

\* Step 2, for one metadata port.
DiagSpd(diagnosis, spd, out) ==
    IF ~out.raised /\ out.value # <<>>
    THEN [diagnosis EXCEPT !.signal_chain = Append(@,
            Merge([stage |-> S_SPD \o <<spd[Len(spd)]>>, type |-> "metadata",
                   raw |-> out.value],
                  _parse_spd_status(out.value)))]
    ELSE diagnosis

\* Step 3, for one output port.
DiagOutput(diagnosis, tx, out) ==
    LET stage == S_Output \o Upper(tx)
        signal_info == _parse_signal_status(out.value, tx)
    IN  IF out.raised
        THEN [diagnosis EXCEPT !.signal_chain = Append(@,
                [stage |-> stage, type |-> "output", error |-> out.error])]
        ELSE IF out.value # <<>> /\ "raised" \in DOMAIN signal_info
        THEN [diagnosis EXCEPT !.signal_chain = Append(@,
                [stage |-> stage, type |-> "output",
                 error |-> signal_info.raised])]
        ELSE IF out.value # <<>>
        THEN [diagnosis EXCEPT
                !.signal_chain = Append(@,
                    Merge([stage |-> stage, type |-> "output"], signal_info)),
                !.hdr_status.output =
                    IF signal_info.hdr_format # "SDR"
                    THEN [format |-> signal_info.hdr_format, details |-> signal_info]
                    ELSE @]
        ELSE diagnosis

\* Step 4, for one sink port: "Sink " + sink[-5:-4].upper() + sink[-4:]
DiagSink(diagnosis, sink, out) ==
    LET n == Len(sink)
        stage == S_Sink \o Upper(SubSeq(sink, n - 4, n - 4)) \o SubSeq(sink, n - 3, n)
    IN  IF ~out.raised /\ out.value # <<>>
        THEN [diagnosis EXCEPT !.signal_chain = Append(@,
                Merge([stage |-> stage, type |-> "sink", raw |-> out.value],
                      _parse_sink_capabilities(out.value)))]
        ELSE diagnosis

\* Step 5, for one EDID/HDR setting.
DiagSetting(diagnosis, setting, out) ==
    IF ~out.raised /\ IsUsable(out.value)
    THEN [diagnosis EXCEPT !.settings = Put(@, setting, out.value)]
    ELSE diagnosis

DiagOne(diagnosis, q, out) ==
    CASE q.phase = "input"  -> DiagInput(diagnosis, q.key, out)
      [] q.phase = "spd"    -> DiagSpd(diagnosis, q.key, out)
      [] q.phase = "output" -> DiagOutput(diagnosis, q.key, out)
      [] q.phase = "sink"   -> DiagSink(diagnosis, q.key, out)
      [] OTHER              -> DiagSetting(diagnosis, q.key, out)

\* The stage queries with the output ports asked before the others.
DiagPlanOutputsFirst ==
    Each("output", <<K_tx0, K_tx1>>) \o Each("input", <<K_rx0, K_rx1>>)
    \o Each("spd", <<K_spd0, K_spd1>>) \o Each("sink", <<K_tx0sink, K_tx1sink>>)
    \o Each("edid", edid_settings)

\* The stage queries of a diagnostic run, in the order of the code.
DiagPlan ==
    Each("input", <<K_rx0, K_rx1>>) \o Each("spd", <<K_spd0, K_spd1>>)
    \o Each("output", <<K_tx0, K_tx1>>) \o Each("sink", <<K_tx0sink, K_tx1sink>>)
    \o Each("edid", edid_settings)

(***************************************************************************)
(* Requests                                                                *)
(***************************************************************************)
\* The methods of VrroomConnection that open a connection themselves.
Methods == {"fetch_config", "apply_settings", "backup_config", "detect_inputs",
            "diagnose_hdr_signal_chain", "get_all_settings_detailed"}

\* The endpoints that drive connect / send / disconnect themselves.
Endpoints == {"vrroom_command", "vrroom_set_setting"}

T_auto == <<"a","u","t","o">>
T_reboot == <<"r","e","b","o","o","t">>

\* Settings patches a caller may send (key/value pairs in the order of the
\* dict); the last one carries a line break inside a value.
Patches ==
    { <<>>,
      << <<K_edidmode, T_automix>> >>,
      << <<K_edidmode, T_automix>>, <<K_hdcp, T_auto>>, <<K_cec, T_on>> >>,
      << <<K_cec, T_on \o CRLF \o T_reboot>>, <<K_edidhdrflag, T_on>> >>,
      << <<K_insel, <<>>>>, <<K_cec, T_on>> >> }

\* Command texts a caller may post to /api/vrroom/command.
Commands ==
    { <<>>,
      <<SP, SP>>,
      T_get,
      T_reboot,
      T_get_ \o K_insel,
      Upper(T_get_) \o K_insel,
      <<SP>> \o T_get_ \o K_insel \o <<SP>>,
      <<"g","e","t","x",SP>> \o K_insel,
      T_set_ \o K_insel \o <<SP, "1">>,
      T_get_ \o K_insel \o CRLF \o T_reboot,
      T_get_ \o K_insel \o CRLF }

\* Setting/value pairs a caller may post to /api/vrroom/set.
SetRequests ==
    { <<K_edidmode, T_automix>>,
      <<K_cec, T_on \o CRLF \o T_reboot>>,
      <<K_insel \o CRLF \o T_reboot, T_on>> }

NewCall(name, ip) ==
    [name |-> name, ip_address |-> ip, raw |-> <<>>, command |-> <<>>,
     patch |-> <<>>, backup_path |-> None]

\* get_all_settings() followed by get_status()
FetchPlan == Each("setting", SETTINGS_TO_QUERY) \o Each("status", STATUS_QUERIES)

\* The two input queries of detect_inputs and its query of the selection.
DetectPlan == Each("status", <<K_rx0, K_rx1>>) \o <<Q("insel", K_insel)>>

\* The queries of get_all_settings_detailed.
DetailPlan == Each("setting", all_settings)

\* The queries an accepted request makes, in order.
Plan(c) ==
    CASE c.name \in {"fetch_config", "backup_config"} -> FetchPlan
      [] c.name = "apply_settings" ->
            [i \in 1..Len(c.patch) |->
                [phase |-> "set", key |-> c.patch[i][1], value |-> c.patch[i][2]]]
      [] c.name = "detect_inputs" -> DetectPlan
      [] c.name = "diagnose_hdr_signal_chain" -> DiagPlan
      [] c.name = "get_all_settings_detailed" -> DetailPlan
      [] c.name = "vrroom_command" -> <<Q("command", c.command)>>
      [] c.name = "vrroom_set_setting" ->
            [i \in 1..Len(c.patch) |->
                [phase |-> "set", key |-> c.patch[i][1], value |-> c.patch[i][2]]]

\* The channel call a query makes.
Exchange(cn, nt, c, q, mode) ==
    CASE q.phase \in {"setting", "edid"} -> get_setting(cn, nt, c, q.key, mode)
      [] q.phase = "set" -> set_setting(cn, nt, c, q.key, q.value, mode)
      [] q.phase = "command" -> send_command(cn, nt, c, q.key, mode)
      [] q.phase = "insel" -> send_command(cn, nt, c, T_get_ \o K_insel, mode)
      [] OTHER -> send_command(cn, nt, c, T_get_ \o T_status \o <<SP>> \o q.key, mode)

\* The command text a query hands to send_command.
CommandOf(q) ==
    CASE q.phase \in {"setting", "edid"} -> T_get_ \o q.key
      [] q.phase = "set" -> T_set_ \o q.key \o <<SP>> \o q.value
      [] q.phase = "command" -> q.key
      [] q.phase = "insel" -> T_get_ \o K_insel
      [] OTHER -> T_get_ \o T_status \o <<SP>> \o q.key

\* The operation's start with the output format not yet known.
InitLocalOutputUnknown(c) ==
    CASE c.name \in {"fetch_config", "backup_config"} ->
            [settings |-> EmptyDict, status |-> EmptyDict]
      [] c.name = "apply_settings" -> [results |-> EmptyDict]
      [] c.name = "detect_inputs" ->
            [inputs |-> [rx \in {K_rx0, K_rx1} |->
                            [connected |-> FALSE, signal |-> NoneText,
                             resolution |-> NoneText]]]
      [] c.name = "diagnose_hdr_signal_chain" ->
            [success |-> TRUE,
             signal_chain |-> <<>>,
             hdr_status |->
                [input |-> [detected |-> FALSE, format |-> "SDR", details |-> NoneDict],
                 processing |-> [lldv_active |-> FALSE, hdr_inject |-> FALSE],
                 output |-> [format |-> "Unknown", details |-> NoneDict]],
             settings |-> EmptyDict,
             issues |-> <<>>,
             recommendations |-> <<>>]
      [] c.name = "get_all_settings_detailed" -> [settings_list |-> <<>>]
      [] OTHER -> [response |-> <<>>]

\* What an operation holds when its queries start.
InitLocal(c) ==
    CASE c.name \in {"fetch_config", "backup_config"} ->
            [settings |-> EmptyDict, status |-> EmptyDict]
      [] c.name = "apply_settings" -> [results |-> EmptyDict]
      [] c.name = "detect_inputs" ->
            [inputs |-> [rx \in {K_rx0, K_rx1} |->
                            [connected |-> FALSE, signal |-> NoneText,
                             resolution |-> NoneText]]]
      [] c.name = "diagnose_hdr_signal_chain" ->
            [success |-> TRUE,
             signal_chain |-> <<>>,
             hdr_status |->
                [input |-> [detected |-> FALSE, format |-> "SDR", details |-> NoneDict],
                 processing |-> [lldv_active |-> FALSE, hdr_inject |-> FALSE],
                 output |-> [format |-> "SDR", details |-> NoneDict]],
             settings |-> EmptyDict,
             issues |-> <<>>,
             recommendations |-> <<>>]
      [] c.name = "get_all_settings_detailed" -> [settings_list |-> <<>>]
      [] OTHER -> [response |-> <<>>]

\* One query's outcome taken into what the operation holds.
Absorb(c, q, out, loc) ==
    CASE c.name \in {"fetch_config", "backup_config"} ->
            IF q.phase = "setting"
            THEN [loc EXCEPT !.settings = get_all_settings(@, q.key, out)]
            ELSE [loc EXCEPT !.status = get_status(@, q.key, out)]
      [] c.name = "apply_settings" ->
            [loc EXCEPT !.results = ApplyOne(@, q.key, out)]
      [] c.name = "detect_inputs" -> DetectOne(loc, q, out)
      [] c.name = "diagnose_hdr_signal_chain" ->
            DiagOne(loc, q, out)
      [] c.name = "get_all_settings_detailed" ->
            [loc EXCEPT !.settings_list = DetailOne(@, q.key, out)]
      [] OTHER -> [loc EXCEPT !.response = out.value]

\* What an operation returns once its queries are done.  `written` is
\* whether backup_config could write its file.
Return(c, loc, written) ==
    CASE c.name = "fetch_config" ->
            [success |-> TRUE, ip_address |-> c.ip_address,
             settings |-> loc.settings, status |-> loc.status]
      [] c.name = "backup_config" ->
            IF c.backup_path # None /\ ~written
            THEN [success |-> FALSE, error |-> "OSError"]
            ELSE [success |-> TRUE,
                  backup |-> [vrroom_backup |-> TRUE, version |-> "1.0",
                              ip_address |-> c.ip_address,
                              settings |-> loc.settings,
                              status_snapshot |-> loc.status],
                  filepath |-> c.backup_path]
      [] c.name = "apply_settings" -> [success |-> TRUE, results |-> loc.results]
      [] c.name = "detect_inputs" ->
            [success |-> TRUE, inputs |-> loc.inputs]
      [] c.name = "diagnose_hdr_signal_chain" -> _analyze_hdr_chain(loc)
      [] c.name = "get_all_settings_detailed" ->
            [success |-> TRUE, settings |-> loc.settings_list]
      [] c.name = "vrroom_command" ->
            [success |-> TRUE, command |-> c.command, response |-> loc.response]
      [] OTHER ->
            [success |-> TRUE, setting |-> c.patch[1][1], value |-> c.patch[1][2],
             response |-> loc.response]

\* What an operation returns from its `except Exception as e` clause.
Failure(c, error) ==
    IF c.name \in {"fetch_config", "diagnose_hdr_signal_chain"}
    THEN [success |-> FALSE, error |-> error, ip_address |-> c.ip_address]
    ELSE [success |-> FALSE, error |-> error]

\* Whether the operation closes its socket in a `finally` clause.  The two
\* endpoints call disconnect() as the last statement of their `try` body.
HasFinally(name) == name \in Methods

\* An operation whose loops have no `try` of their own.
CatchesNothing(name) == FALSE

\* Whether an exception raised by one query is caught inside the loop (the
\* operation goes on) or ends the operation.
CatchesPerQuery(name) == name \in Methods

(***************************************************************************)
(* State                                                                   *)
(***************************************************************************)
\* The requests in flight.  Each constructs its own VrroomConnection and,
\* in connect(), its own socket; both are named after the request.
Runs == {"r1", "r2"}

\* How many exchanges of one behaviour may go wrong.
MaxFaults == 1

VARIABLES
    pc,      \* per request: "idle", "connect", "run" or "done"
    call,    \* per request: the operation and its arguments
    conn,    \* per connection object: ip_address and self.socket
    net,     \* per socket: open or closed, its peer, bytes written and pending
    idx,     \* per request: the query of its plan it makes next
    local,   \* per request: what the operation has collected
    result,  \* per request: what the operation returned
    log,     \* per request: each channel call made and what it returned
    faults   \* exchanges gone wrong so far

vars == <<pc, call, conn, net, idx, local, result, log, faults>>

\* One connection object held at module level and used by every request.
SelfShared(r) == "r1"

\* The connection object a request works on: the one it constructed.
Self(r) == r

Init ==
    /\ pc = [r \in Runs |-> "idle"]
    /\ call = [r \in Runs |-> NewCall(None, None)]
    /\ conn = [r \in Runs |-> NewConnection(None)]
    /\ net = [r \in Runs |-> NoSocket]
    /\ idx = [r \in Runs |-> 0]
    /\ local = [r \in Runs |-> <<>>]
    /\ result = [r \in Runs |-> <<>>]
    /\ log = [r \in Runs |-> <<>>]
    /\ faults = 0

\* The request is accepted: its connection object is constructed.
Accept(r, c) ==
    /\ pc' = [pc EXCEPT ![r] = "connect"]
    /\ call' = [call EXCEPT ![r] = c]
    /\ conn' = [conn EXCEPT ![Self(r)] = NewConnection(c.ip_address)]
    /\ UNCHANGED <<net, idx, local, result, log, faults>>

\* The request is answered without any connection.
Reject(r, c, status, error) ==
    /\ pc' = [pc EXCEPT ![r] = "done"]
    /\ call' = [call EXCEPT ![r] = c]
    /\ result' = [result EXCEPT ![r] = [status |-> status, error |-> error]]
    /\ UNCHANGED <<conn, net, idx, local, log, faults>>

\* A caller invokes fetch_config() on a fresh VrroomConnection for one of
\* the addresses `ips`.
fetch_config(r, ips) ==
    /\ pc[r] = "idle"
    /\ \E ip \in ips : Accept(r, NewCall("fetch_config", ip))

\* backup_config(backup_path), as /api/vrroom/backup calls it.
backup_config(r) ==
    /\ pc[r] = "idle"
    /\ \E ip \in {"boxB"} :
         Accept(r, [NewCall("backup_config", ip) EXCEPT !.backup_path = "backup.json"])

\* apply_settings(settings_dict)
apply_settings(r) ==
    /\ pc[r] = "idle"
    /\ \E ip \in Devices, patch \in Patches :
         Accept(r, [NewCall("apply_settings", ip) EXCEPT !.patch = patch])

\* detect_inputs()
detect_inputs(r) ==
    /\ pc[r] = "idle"
    /\ \E ip \in Devices : Accept(r, NewCall("detect_inputs", ip))

\* diagnose_hdr_signal_chain(), against one of the addresses `ips`
diagnose_hdr_signal_chain(r, ips) ==
    /\ pc[r] = "idle"
    /\ \E ip \in ips : Accept(r, NewCall("diagnose_hdr_signal_chain", ip))

\* get_all_settings_detailed()
get_all_settings_detailed(r) ==
    /\ pc[r] = "idle"
    /\ \E ip \in {"boxA"} : Accept(r, NewCall("get_all_settings_detailed", ip))

\* The verb test without the blank after the verb.
CommandAllowedLoose(command) ==
    LET cmd_lower == Lower(command)
    IN  StartsWith(cmd_lower, T_get) \/ StartsWith(cmd_lower, T_set)

\* Security: only allow 'get' and 'set' commands
CommandAllowed(command) ==
    LET cmd_lower == Lower(command)
    IN  StartsWith(cmd_lower, T_get_) \/ StartsWith(cmd_lower, T_set_)

\* POST /api/vrroom/command, up to the point where it connects.
vrroom_command(r) ==
    /\ pc[r] = "idle"
    /\ \E ip \in {""} \cup Devices, raw \in Commands :
         LET command == Strip(raw)
             c == [NewCall("vrroom_command", ip) EXCEPT
                      !.raw = raw, !.command = command]
         IN  IF ip = "" THEN Reject(r, c, 400, "IP address is required")
             ELSE IF command = <<>> THEN Reject(r, c, 400, "Command is required")
             ELSE IF ~CommandAllowed(command)
             THEN Reject(r, c, 400, "Only 'get' and 'set' commands are allowed")
             ELSE Accept(r, c)

\* POST /api/vrroom/set, up to the point where it connects.
vrroom_set_setting(r) ==
    /\ pc[r] = "idle"
    /\ \E ip \in Devices, sv \in SetRequests :
         Accept(r, [NewCall("vrroom_set_setting", ip) EXCEPT !.patch = <<sv>>])

\* The operation is over: its result, and its socket released.
Complete(r, cn, nt, res) ==
    LET d == disconnect(cn, nt, Self(r))
    IN  /\ pc' = [pc EXCEPT ![r] = "done"]
        /\ result' = [result EXCEPT ![r] = res]
        /\ conn' = d.conn
        /\ net' = d.net

\* The operation ends in its `except` clause: a method passes through its
\* `finally`, an endpoint returns the error as it is.
Abort(r, cn, nt, error) ==
    LET d == IF HasFinally(call[r].name) THEN disconnect(cn, nt, Self(r))
             ELSE [conn |-> cn, net |-> nt]
    IN  /\ pc' = [pc EXCEPT ![r] = "done"]
        /\ result' = [result EXCEPT ![r] = Failure(call[r], error)]
        /\ conn' = d.conn
        /\ net' = d.net

WriteOutcomes(c) ==
    IF c.name = "backup_config" /\ c.backup_path # None THEN BOOLEAN ELSE {TRUE}

\* self.connect()
Connect(r) ==
    /\ pc[r] = "connect"
    /\ \E outcome \in ConnectOutcomes :
         LET k == connect(conn, net, Self(r), r, outcome)
         IN  IF k.raised
             THEN /\ Abort(r, k.conn, k.net, k.error)
                  /\ UNCHANGED <<idx, local>>
             ELSE IF Plan(call[r]) = <<>>
             THEN /\ \E written \in WriteOutcomes(call[r]) :
                       Complete(r, k.conn, k.net,
                                Return(call[r], InitLocal(call[r]), written))
                  /\ local' = [local EXCEPT ![r] = InitLocal(call[r])]
                  /\ UNCHANGED idx
             ELSE /\ pc' = [pc EXCEPT ![r] = "run"]
                  /\ idx' = [idx EXCEPT ![r] = 1]
                  /\ local' = [local EXCEPT ![r] = InitLocal(call[r])]
                  /\ conn' = k.conn
                  /\ net' = k.net
                  /\ UNCHANGED result
    /\ UNCHANGED <<call, log, faults>>

\* What follows a query whose outcome is `out`, the operation then holding
\* `loc`: an exception its loop does not catch ends the operation in its
\* `except` clause; after the last query the operation returns; otherwise
\* it goes on to its next query.
Finish(r, c, out, loc) ==
    IF out.raised /\ ~CatchesPerQuery(c.name)
    THEN /\ Abort(r, conn, out.net, out.error)
         /\ UNCHANGED <<idx, local>>
    ELSE IF idx[r] = Len(Plan(c))
    THEN /\ \E written \in WriteOutcomes(c) :
              Complete(r, conn, out.net, Return(c, loc, written))
         /\ local' = [local EXCEPT ![r] = loc]
         /\ UNCHANGED idx
    ELSE /\ idx' = [idx EXCEPT ![r] = idx[r] + 1]
         /\ local' = [local EXCEPT ![r] = loc]
         /\ net' = out.net
         /\ UNCHANGED <<pc, conn, result>>

\* The outcome `out` of query q handled as the operation handles it.
Handle(r, c, q, mode, out) ==
    /\ log' = [log EXCEPT ![r] = Append(@,
                  [command |-> CommandOf(q), mode |-> mode,
                   raised |-> out.raised, value |-> out.value,
                   error |-> out.error])]
    /\ Finish(r, c, out, Absorb(c, q, out, local[r]))

\* Query q of operation c: one call to the channel, the exchange going the
\* way `mode`.
Ask(r, c, q, mode) ==
    Handle(r, c, q, mode, Exchange(conn, net, Self(r), q, mode))

\* The next query of the operation (the exchange going one of the ways
\* `modes`), its outcome handled as the operation handles it, and after the
\* last query the operation's return.
Query(r, modes) ==
    /\ pc[r] = "run"
    /\ \E mode \in modes :
         /\ mode # "ok" => faults < MaxFaults
         /\ faults' = IF mode = "ok" THEN faults ELSE faults + 1
         /\ Ask(r, call[r], Plan(call[r])[idx[r]], mode)
    /\ UNCHANGED call

Step(r) == Query(r, Modes)

\* One request, of any kind.
Next ==
    \E r \in {"r1"} :
        \/ fetch_config(r, Devices)
        \/ backup_config(r)
        \/ apply_settings(r)
        \/ detect_inputs(r)
        \/ diagnose_hdr_signal_chain(r, Devices)
        \/ get_all_settings_detailed(r)
        \/ vrroom_command(r)
        \/ vrroom_set_setting(r)
        \/ Connect(r)
        \/ Step(r)

Spec == Init /\ [][Next]_vars

\* One request that reads the settings and status of a box whose answers
\* take every shape (echo-prefixed, bare, sentinel, none).
NextFetch ==
    \E r \in {"r1"} :
        \/ fetch_config(r, {"boxA"})
        \/ Connect(r)
        \/ Step(r)

SpecFetch == Init /\ [][NextFetch]_vars

\* One request that writes to the box.
NextSet ==
    \E r \in {"r1"} :
        \/ apply_settings(r)
        \/ vrroom_command(r)
        \/ vrroom_set_setting(r)
        \/ Connect(r)
        \/ Step(r)

SpecSet == Init /\ [][NextSet]_vars

\* One diagnostic run.
NextDiag ==
    \E r \in {"r1"} :
        \/ diagnose_hdr_signal_chain(r, Devices)
        \/ Connect(r)
        \/ Step(r)

SpecDiag == Init /\ [][NextDiag]_vars

\* Two diagnostic runs at once, each against its own box.
Target == [r \in Runs |-> IF r = "r1" THEN "boxA" ELSE "boxB"]

\* While two runs interleave, an exchange either goes well or is reset.
StepLossy(r) == Query(r, {"ok", "reset"})

NextConc ==
    \E r \in Runs :
        \/ diagnose_hdr_signal_chain(r, {Target[r]})
        \/ Connect(r)
        \/ StepLossy(r)

SpecConc == Init /\ [][NextConc]_vars

(***************************************************************************)
(* send_command, one recv at a time.  The peer decides what each recv      *)
(* delivers.  The loop looks at nothing but whether the chunk is empty and *)
(* whether the response now ends in CRLF, so the response is kept exactly  *)
(* up to MaxBuf octets and by its last MaxBuf octets beyond that.          *)
(***************************************************************************)
MaxBuf == 3

\* What one recv(1024) may deliver.
Chunks == { <<"o">>, <<"n">>, <<CR>>, <<LF>>, <<"o", "n", CR, LF>>, <<BadByte>> }
RecvEvents == {DataEv(b) : b \in Chunks} \cup {TimeoutEv, EofEv, ErrorEv}

ReadCommands == { T_get_ \o K_insel, T_get_ \o T_status \o <<SP>> \o K_rx0 }

Keep(response) ==
    IF Len(response) > MaxBuf
    THEN SubSeq(response, Len(response) - MaxBuf + 1, Len(response))
    ELSE response

\* A connected channel, before send_command is called.
InitRead ==
    /\ pc = [r \in Runs |-> IF r = "r1" THEN "ready" ELSE "idle"]
    /\ call = [r \in Runs |-> NewCall(IF r = "r1" THEN "send_command" ELSE None,
                                      IF r = "r1" THEN "boxA" ELSE None)]
    /\ conn = [r \in Runs |-> IF r = "r1"
                              THEN [ip_address |-> "boxA", socket |-> "r1"]
                              ELSE NewConnection(None)]
    /\ net = [r \in Runs |-> IF r = "r1"
                             THEN [state |-> "open", connected |-> TRUE,
                                   dev |-> "boxA", inbox |-> <<>>, wire |-> <<>>]
                             ELSE NoSocket]
    /\ idx = [r \in Runs |-> 0]
    /\ local = [r \in Runs |-> <<>>]
    /\ result = [r \in Runs |-> <<>>]
    /\ log = [r \in Runs |-> <<>>]
    /\ faults = 0

\* self.socket.sendall(cmd.encode('utf-8')), and response = b""
sendall(r) ==
    /\ pc[r] = "ready"
    /\ \E command \in ReadCommands, sent \in BOOLEAN :
         /\ call' = [call EXCEPT ![r].command = command]
         /\ IF sent
            THEN /\ net' = [net EXCEPT ![conn[Self(r)].socket].wire =
                                          @ \o command \o CRLF]
                 /\ pc' = [pc EXCEPT ![r] = "reading"]
                 /\ local' = [local EXCEPT ![r] =
                                 [response |-> <<>>, dropped |-> FALSE,
                                  malformed |-> FALSE]]
                 /\ UNCHANGED result
            ELSE /\ pc' = [pc EXCEPT ![r] = "raised"]
                 /\ result' = [result EXCEPT ![r] =
                                  [raised |-> TRUE, error |-> "Communication error"]]
                 /\ UNCHANGED <<net, local>>
    /\ UNCHANGED <<conn, idx, log, faults>>

\* One pass of the loop: chunk = self.socket.recv(1024) and what follows.
recv(r) ==
    /\ pc[r] = "reading"
    /\ \E ev \in RecvEvents :
         LET st == RecvStep(local[r].response, ev)
             bad == local[r].malformed \/ ~Decodable(ev.bytes)
             dropped == local[r].dropped \/ Len(st.response) > MaxBuf
         IN  /\ local' = [local EXCEPT ![r] =
                             [response |-> Keep(st.response), dropped |-> dropped,
                              malformed |-> bad]]
             /\ IF st.next = "more"
                THEN UNCHANGED <<pc, result>>
                ELSE IF st.next = "raise"
                THEN /\ pc' = [pc EXCEPT ![r] = "raised"]
                     /\ result' = [result EXCEPT ![r] =
                                      [raised |-> TRUE, error |-> "Communication error"]]
                ELSE IF bad
                THEN /\ pc' = [pc EXCEPT ![r] = "raised"]
                     /\ result' = [result EXCEPT ![r] =
                                      [raised |-> TRUE, error |-> "UnicodeDecodeError"]]
                ELSE /\ pc' = [pc EXCEPT ![r] = "returned"]
                     /\ result' = [result EXCEPT ![r] =
                                      [raised |-> FALSE,
                                       value |-> Strip(Keep(st.response)),
                                       truncated |-> dropped]]
    /\ UNCHANGED <<call, conn, net, idx, log, faults>>

NextRead == \E r \in {"r1"} : sendall(r) \/ recv(r)

\* Every sendall and every recv comes back within TIMEOUT, so a call that
\* can take its next pass does take it.
SpecRead ==
    InitRead /\ [][NextRead]_vars
    /\ WF_vars(sendall("r1")) /\ WF_vars(recv("r1"))

(***************************************************************************)
(* Properties                                                              *)
(***************************************************************************)
Min(a, b) == IF a < b THEN a ELSE b

\* The requests of one operation that have got past connect().
Connected(name) ==
    {r \in Runs : call[r].name = name /\ pc[r] \in {"run", "done"} /\ net[r].connected}

\* C1: once any operation that opens a connection has finished -- on every
\* exit path, a failed connect and an exception while sending or receiving
\* included -- the socket it opened is closed and no open socket remains.
C1_SocketReleased ==
    \A r \in Runs : pc[r] = "done" => net[r].state # "open"

\* C2: get_all_settings asks for every key of SETTINGS_TO_QUERY once and in
\* order, whatever earlier queries raised; its map holds exactly the keys
\* whose own query returned a non-empty value other than "error"/"unknown"
\* in any letter case, each with that value; a key whose query raised is
\* absent, so the map has as many entries as keys queried less the keys
\* that raised and the keys answered without a usable value.
C2_GetAllSettingsSkipsFailures ==
    \A r \in Connected("fetch_config") :
        LET n == Min(Len(log[r]), Len(SETTINGS_TO_QUERY))
            asked == 1..n
            failed == {i \in asked : log[r][i].raised}
            unusable == {i \in asked \ failed :
                            \/ log[r][i].value = <<>>
                            \/ Lower(log[r][i].value) \in {T_error, T_unknown}}
            kept == asked \ (failed \cup unusable)
            settings == local[r].settings
        IN  /\ \A i \in asked : log[r][i].command = T_get_ \o SETTINGS_TO_QUERY[i]
            /\ DOMAIN settings = {SETTINGS_TO_QUERY[i] : i \in kept}
            /\ \A i \in kept : settings[SETTINGS_TO_QUERY[i]] = log[r][i].value
            /\ Cardinality(DOMAIN settings)
                  = n - Cardinality(failed) - Cardinality(unusable)
            /\ pc[r] = "run" /\ idx[r] > Len(SETTINGS_TO_QUERY) =>
                  n = Len(SETTINGS_TO_QUERY)
            /\ pc[r] = "done" =>
                  /\ n = Len(SETTINGS_TO_QUERY)
                  /\ result[r].settings = settings

\* C2 happens: a finished batch in which one key's query raised and a key
\* queried after it is in the map.
C2_Witness ==
    \E r \in Connected("fetch_config") :
        /\ pc[r] = "done"
        /\ \E i, j \in 1..Len(SETTINGS_TO_QUERY) :
              /\ i < j
              /\ log[r][i].raised
              /\ SETTINGS_TO_QUERY[i] \notin DOMAIN result[r].settings
              /\ SETTINGS_TO_QUERY[j] \in DOMAIN result[r].settings

\* C3: fetch_config reports success = false exactly when connect() failed;
\* once connected it reports success = true with the settings and status
\* collected, whichever queries failed.
C3_FetchFailsOnlyOnConnect ==
    \A r \in Runs :
        call[r].name = "fetch_config" /\ pc[r] = "done" =>
            /\ result[r].success = net[r].connected
            /\ net[r].connected =>
                  /\ result[r].settings = local[r].settings
                  /\ result[r].status = local[r].status
                  /\ Len(log[r]) = Len(SETTINGS_TO_QUERY) + Len(STATUS_QUERIES)
            /\ ~net[r].connected => log[r] = <<>>

\* C3 happens: a fetch that connected, lost a query and reported success.
C3_Witness ==
    \E r \in Connected("fetch_config") :
        /\ pc[r] = "done"
        /\ result[r].success
        /\ \E i \in 1..Len(log[r]) : log[r][i].raised

\* C4: once connected, apply_settings issues one set command per key of
\* the patch, in the patch's order and whatever earlier keys did; the
\* result map has exactly the patch's keys, each either success = true with
\* the response of its own command or success = false with the error of its
\* own command.
C4_ApplyEveryKey ==
    \A r \in Connected("apply_settings") :
        LET patch == call[r].patch
            n == Len(log[r])
            results == local[r].results
        IN  /\ n <= Len(patch)
            /\ DOMAIN results = {patch[i][1] : i \in 1..n}
            /\ \A i \in 1..n :
                  /\ log[r][i].command = T_set_ \o patch[i][1] \o <<SP>> \o patch[i][2]
                  /\ results[patch[i][1]] =
                        IF log[r][i].raised
                        THEN [success |-> FALSE, error |-> log[r][i].error]
                        ELSE [success |-> TRUE, response |-> log[r][i].value]
            /\ pc[r] = "done" =>
                  /\ n = Len(patch)
                  /\ result[r] = [success |-> TRUE, results |-> results]

\* C4 happens: a patch of three keys whose first set command failed and
\* whose last one was applied.
C4_Witness ==
    \E r \in Connected("apply_settings") :
        /\ pc[r] = "done"
        /\ Len(call[r].patch) = 3
        /\ ~result[r].results[call[r].patch[1][1]].success
        /\ result[r].results[call[r].patch[3][1]].success

\* C5: whatever command text, setting name or value the command, set and
\* apply operations accept -- an embedded CRLF included -- every
\* CRLF-terminated line written to the socket begins with get or set.
C5_OnlyGetSetLines ==
    \A r \in Runs :
        call[r].name \in {"vrroom_command", "vrroom_set_setting", "apply_settings"} =>
            LET written == Lines(net[r].wire)
            IN  \A i \in 1..Len(written) :
                    \/ StartsWith(Lower(written[i]), T_get)
                    \/ StartsWith(Lower(written[i]), T_set)

\* A command text that starts, in any letter case, with "get " or "set ".
HasVerb(text) ==
    StartsWith(Lower(text), <<"g","e","t"," ">>)
    \/ StartsWith(Lower(text), <<"s","e","t"," ">>)

\* The request was answered with an error and touched no socket.
RejectedUnsent(r) ==
    /\ pc[r] = "done"
    /\ "error" \in DOMAIN result[r]
    /\ "status" \in DOMAIN result[r] /\ result[r].status = 400
    /\ conn[r].socket = None
    /\ net[r] = NoSocket
    /\ log[r] = <<>>

\* C6 as stated: a command posted to the command endpoint whose text does
\* not start with "get " or "set " is rejected with an error, no connection
\* is opened and no byte is sent.
C6_AsStated ==
    \A r \in Runs :
        call[r].name = "vrroom_command" /\ ~HasVerb(call[r].raw) => RejectedUnsent(r)

\* C6: a command posted to the command endpoint whose text, once leading
\* and trailing whitespace is trimmed, does not start with "get " or "set "
\* is rejected with an error, no connection is opened and no byte is sent.
C6_RejectedBeforeIO ==
    \A r \in Runs :
        call[r].name = "vrroom_command" /\ ~HasVerb(Strip(call[r].raw)) =>
            RejectedUnsent(r)

\* C6 happens: "reboot" posted for a box's address was rejected.
C6_Witness ==
    \E r \in Runs :
        /\ call[r].name = "vrroom_command"
        /\ call[r].ip_address \in Devices
        /\ call[r].raw = T_reboot
        /\ RejectedUnsent(r)

\* C7: every send_command call returns or raises after finitely many
\* reads, whatever the peer does -- a peer that delivers data before each
\* read's timeout without the response ever ending in CRLF included.
C7_SendCommandReturns ==
    \A r \in {"r1"} : (pc[r] = "reading") ~> (pc[r] \in {"returned", "raised"})

\* The commands of a diagnostic run, in the order the claim lists them.
C8_Commands ==
    << <<"g","e","t"," ","s","t","a","t","u","s"," ","r","x","0">>,
       <<"g","e","t"," ","s","t","a","t","u","s"," ","r","x","1">>,
       <<"g","e","t"," ","s","t","a","t","u","s"," ","s","p","d","0">>,
       <<"g","e","t"," ","s","t","a","t","u","s"," ","s","p","d","1">>,
       <<"g","e","t"," ","s","t","a","t","u","s"," ","t","x","0">>,
       <<"g","e","t"," ","s","t","a","t","u","s"," ","t","x","1">>,
       <<"g","e","t"," ","s","t","a","t","u","s"," ","t","x","0","s","i","n","k">>,
       <<"g","e","t"," ","s","t","a","t","u","s"," ","t","x","1","s","i","n","k">>,
       <<"g","e","t"," ","e","d","i","d","m","o","d","e">>,
       <<"g","e","t"," ","e","d","i","d","d","v","f","l","a","g">>,
       <<"g","e","t"," ","e","d","i","d","d","v","m","o","d","e">>,
       <<"g","e","t"," ","e","d","i","d","h","d","r","f","l","a","g">>,
       <<"g","e","t"," ","e","d","i","d","h","d","r","m","o","d","e">>,
       <<"g","e","t"," ","h","d","r","c","u","s","t","o","m">>,
       <<"g","e","t"," ","l","l","d","v">>,
       <<"g","e","t"," ","h","d","r","d","i","s","a","b","l","e">> >>

\* Where a stage of a given type stands in the direction of the signal.
StageRank(type) ==
    CASE type = "input" -> 1 [] type = "metadata" -> 2
      [] type = "output" -> 3 [] type = "sink" -> 4

InSignalOrder(chain) ==
    \A i, j \in 1..Len(chain) :
        i < j => StageRank(chain[i].type) <= StageRank(chain[j].type)

\* C8: in every diagnostic run, whichever queries fail, the commands go out
\* in the order rx0, rx1, spd0, spd1, tx0, tx1, tx0sink, tx1sink and then
\* the EDID/HDR settings, the rule pass runs after all of them, and in the
\* chain inputs come before metadata stages, those before outputs, those
\* before sinks.
C8_FixedQueryOrder ==
    \A r \in Connected("diagnose_hdr_signal_chain") :
        /\ Len(log[r]) <= Len(C8_Commands)
        /\ \A i \in 1..Len(log[r]) : log[r][i].command = C8_Commands[i]
        /\ InSignalOrder(local[r].signal_chain)
        /\ pc[r] = "run" => result[r] = <<>> /\ local[r].issues = <<>>
        /\ pc[r] = "done" =>
              /\ Len(log[r]) = Len(C8_Commands)
              /\ result[r].signal_chain = local[r].signal_chain
              /\ InSignalOrder(result[r].signal_chain)

\* C8 happens: a finished run in which a query raised and whose chain has
\* stages of all four types.
C8_Witness ==
    \E r \in Connected("diagnose_hdr_signal_chain") :
        /\ pc[r] = "done"
        /\ \E i \in 1..Len(log[r]) : log[r][i].raised
        /\ \A type \in {"input", "metadata", "output", "sink"} :
              \E k \in 1..Len(result[r].signal_chain) :
                  result[r].signal_chain[k].type = type

\* The stage each of the first eight queries of a diagnostic run is about.
C9_Stages ==
    << <<"I","n","p","u","t"," ","R","X","0">>,
       <<"I","n","p","u","t"," ","R","X","1">>,
       <<"S","P","D"," ","0">>,
       <<"S","P","D"," ","1">>,
       <<"O","u","t","p","u","t"," ","T","X","0">>,
       <<"O","u","t","p","u","t"," ","T","X","1">>,
       <<"S","i","n","k"," ","0","s","i","n","k">>,
       <<"S","i","n","k"," ","1","s","i","n","k">> >>

\* C9: for each stage query of a diagnostic run that raises, the chain has
\* an error entry for that stage, and the queries after it are still made.
C9_FailedStageRecorded ==
    \A r \in Connected("diagnose_hdr_signal_chain") :
        /\ \A i \in 1..Min(Len(log[r]), Len(C9_Stages)) :
              log[r][i].raised =>
                  \E k \in 1..Len(local[r].signal_chain) :
                      /\ local[r].signal_chain[k].stage = C9_Stages[i]
                      /\ "error" \in DOMAIN local[r].signal_chain[k]
        /\ pc[r] = "done" => Len(log[r]) = Len(C8_Commands)

\* A diagnostic run by itself against the box at `ip`, before its first
\* query: a connection and a socket nobody else has.
AloneStart(ip) ==
    [loc  |-> InitLocal(NewCall("diagnose_hdr_signal_chain", ip)),
     conn |-> [solo \in {"solo"} |-> [ip_address |-> ip, socket |-> "solo"]],
     net  |-> [solo \in {"solo"} |->
                  [state |-> "open", connected |-> TRUE, dev |-> ip,
                   inbox |-> <<>>, wire |-> <<>>]]]

\* The run by itself from its i-th query on, that exchange going the way
\* modes[i], given what it holds (`at`) after the queries before.
RECURSIVE AloneFrom(_, _, _)
AloneFrom(at, modes, i) ==
    IF at.conn["solo"].socket = "solo" /\ i > Len(modes) THEN at
    ELSE LET q == DiagPlan[i]
             out == Exchange(at.conn, at.net, "solo", q, modes[i])
         IN  AloneFrom([loc  |-> DiagOne(at.loc, q, out),
                        conn |-> at.conn,
                        net  |-> out.net],
                       modes, i + 1)

Alone(ip, modes) == AloneFrom(AloneStart(ip), modes, 1)

\* The octets the first n channel calls of a log put on the wire.
RECURSIVE Written(_, _)
Written(entries, n) ==
    IF n = 0 THEN <<>>
    ELSE Written(entries, n - 1)
         \o (IF entries[n].mode = "sendfail" THEN <<>>
             ELSE entries[n].command \o CRLF)

\* C10: however two concurrent diagnostic runs against different boxes
\* interleave, each run's diagnosis is the one it would produce running
\* alone against its own box, and its socket carries its own traffic only:
\* it is connected to the run's own address and has been written the run's
\* own commands and nothing else.
C10_RunsIndependent ==
    \A r \in Runs :
        /\ net[r].state # "unopened" => net[r].dev = call[r].ip_address
        /\ r \in Connected("diagnose_hdr_signal_chain") =>
              /\ conn[r].socket \in {r, None}
              /\ net[r].wire = Written(log[r], Len(log[r]))
              /\ pc[r] = "done" =>
                    LET modes == [i \in 1..Len(log[r]) |-> log[r][i].mode]
                        alone == Alone(call[r].ip_address, modes)
                    IN  /\ local[r] = alone.loc
                        /\ net[r].inbox = alone.net["solo"].inbox
                        /\ result[r] = _analyze_hdr_chain(alone.loc)

\* C10 happens: two runs against different boxes, queries of both made
\* before either finished, both finished with different diagnoses.
C10_Witness ==
    /\ \A r \in Runs : r \in Connected("diagnose_hdr_signal_chain") /\ pc[r] = "done"
    /\ call["r1"].ip_address # call["r2"].ip_address
    /\ result["r1"] # result["r2"]
    /\ \E r \in Runs : \E i \in 1..Len(log[r]) : log[r][i].raised

\* ---------------------------------------------------------------------------
\* Config analyzer (VrroomConfigAnalyzer) and the /api/analyze/config endpoint
\* ---------------------------------------------------------------------------

K_earcunmute == <<"e","a","r","c","u","n","m","u","t","e">>
K_hdcpmode == <<"h","d","c","p","m","o","d","e">>
K_cecenabled == <<"c","e","c","e","n","a","b","l","e","d">>
K_earcmode == <<"e","a","r","c","m","o","d","e">>
K__optimized == <<"_","o","p","t","i","m","i","z","e","d">>
K__optimized_date == <<"_","o","p","t","i","m","i","z","e","d","_","d","a","t","e">>
K__optimized_by == <<"_","o","p","t","i","m","i","z","e","d","_","b","y">>
K_foo == <<"f","o","o">>
T_copytx0 == <<"c","o","p","y","t","x","0">>
T_copytx1 == <<"c","o","p","y","t","x","1">>
T_earc == <<"e","a","r","c">>
T_auto_earc == <<"a","u","t","o"," ","e","a","r","c">>
T_AV_Signal_Lab == <<"A","V"," ","S","i","g","n","a","l"," ","L","a","b">>
T_manual == <<"m","a","n","u","a","l">>

\* JSON values as Python sees them: a record whose one field is named after
\* the type and holds the value.
Str(s) == [str |-> s]
Num(n) == [int |-> n]
Bool(b) == [bool |-> b]
NoneValue == [NoneType |-> 0]

\* A JSON number with a fraction or an exponent is a float: kind is "finite",
\* "inf" (1e999, Infinity) or "nan"; whole is the value truncated toward zero
\* and frac tells whether a fraction was cut off.
Float(kind, whole, frac) == [float |-> [kind |-> kind, whole |-> whole, frac |-> frac]]

TypeOf(x) == CHOOSE k \in DOMAIN x : TRUE

ValueOf(x) == x[TypeOf(x)]

\* Python truthiness of a value.
Truthy(x) ==
    CASE TypeOf(x) = "str" -> ValueOf(x) # <<>>
      [] TypeOf(x) = "int" -> ValueOf(x) # 0
      [] TypeOf(x) = "bool" -> ValueOf(x)
      [] TypeOf(x) = "float" ->
           ValueOf(x).kind # "finite" \/ ValueOf(x).whole # 0 \/ ValueOf(x).frac
      [] OTHER -> FALSE

\* int(text): surrounding whitespace stripped, an optional sign, then digits
\* with single underscores allowed between digits; anything else is ValueError.
IntBody(s) ==
    IF s # <<>> /\ s[1] \in {"+", "-"} THEN SubSeq(s, 2, Len(s)) ELSE s

IntValid(b) ==
    /\ b # <<>>
    /\ \A i \in 1..Len(b) :
          \/ IsDigit(b[i])
          \/ /\ b[i] = "_"
             /\ 1 < i /\ i < Len(b)
             /\ IsDigit(b[i - 1]) /\ IsDigit(b[i + 1])

\* int(value) inside try/except (ValueError, TypeError): the fallback is 0.
IntOrZero(x) ==
    CASE TypeOf(x) = "int" -> ValueOf(x)
      [] TypeOf(x) = "bool" -> IF ValueOf(x) THEN 1 ELSE 0
      [] TypeOf(x) = "str" ->
           IF /\ IntValid(IntBody(Strip(ValueOf(x))))
              /\ Len(IntBody(Strip(ValueOf(x)))) <= int_max_str_digits
           THEN (IF Strip(ValueOf(x))[1] = "-" THEN -1 ELSE 1)
                * DigitsToInt(SelectSeq(IntBody(Strip(ValueOf(x))), IsDigit))
           ELSE 0
      [] TypeOf(x) = "float" ->
           IF ValueOf(x).kind = "finite" THEN ValueOf(x).whole ELSE 0
      [] OTHER -> 0

\* int(float("inf")) raises OverflowError, which the except clause of the
\* caller does not name.
IntOverflows(x) == TypeOf(x) = "float" /\ ValueOf(x).kind = "inf"

SEVERITY_CRITICAL == "critical"
SEVERITY_WARNING == "warning"
SEVERITY_INFO == "info"

\* VrroomConfigAnalyzer(config_data): the analyzer keeps a reference to the
\* caller's dict.  raised is the exception that ended the analysis, if any.
VrroomConfigAnalyzer(config_data) ==
    [config |-> config_data, issues |-> <<>>, recommendations |-> <<>>,
     raised |-> None]

Raise(self, exc) == [self EXCEPT !.raised = exc]

Recommend(self, title) ==
    [self EXCEPT !.recommendations = Append(@, [title |-> title])]

_add_issue(self, severity, title, description, setting, current_value, recommended_value) ==
    LET issue == [severity |-> severity, title |-> title,
                  description |-> description]
        i1 == IF setting # <<>> THEN Put(issue, "setting", setting) ELSE issue
        i2 == IF current_value # NoneValue
              THEN Put(i1, "current_value", current_value) ELSE i1
        i3 == IF recommended_value # NoneValue
              THEN Put(i2, "recommended_value", recommended_value) ELSE i2
    IN  [self EXCEPT !.issues = Append(@, i3)]

\* value.lower() exists on str only.
HasLower(x) == TypeOf(x) = "str"

_check_edid_mode(config, self) ==
    IF ~HasLower(Get(config, K_edidmode, Str(<<>>)))
    THEN Raise(self, "AttributeError")
    ELSE LET edid_mode == Lower(ValueOf(Get(config, K_edidmode, Str(<<>>))))
             s1 == IF edid_mode = T_fixed
                   THEN _add_issue(self, SEVERITY_WARNING, "Fixed EDID Mode",
                                   <<"Fixed EDID mode limits sink capabilities.">>,
                                   K_edidmode, Str(edid_mode), Str(T_automix))
                   ELSE IF edid_mode # <<>>
                           /\ edid_mode \notin {T_automix, T_custom, T_copytx0, T_copytx1}
                   THEN _add_issue(self, SEVERITY_INFO, "Unknown EDID Mode",
                                   <<"EDID mode '{edid_mode}' not recognized.", edid_mode>>,
                                   K_edidmode, Str(edid_mode), Str(T_automix))
                   ELSE self
         IN  IF edid_mode = T_automix THEN Recommend(s1, "EDID Mode Optimal")
             ELSE s1

_check_unmute_delays(config, self) ==
    IF \/ IntOverflows(Get(config, K_unmutedelay, Num(0)))
       \/ IntOverflows(Get(config, K_earcunmute, Num(0)))
    THEN Raise(self, "OverflowError")
    ELSE
    LET unmute_delay == IntOrZero(Get(config, K_unmutedelay, Num(0)))
        earc_unmute == IntOrZero(Get(config, K_earcunmute, Num(0)))
        s1 == IF unmute_delay > 500
              THEN _add_issue(self, SEVERITY_CRITICAL, "High Unmute Delay",
                              <<"Unmute delay of {unmute_delay}ms adds significant latency.",
                                unmute_delay>>,
                              K_unmutedelay, Num(unmute_delay), Num(250))
              ELSE IF unmute_delay = 0
              THEN _add_issue(self, SEVERITY_INFO, "No Unmute Delay",
                              <<"Zero unmute delay may cause audio pops on some systems.">>,
                              K_unmutedelay, Num(0), Num(150))
              ELSE self
    IN  IF earc_unmute > 500
        THEN _add_issue(s1, SEVERITY_WARNING, "High eARC Unmute Delay",
                        <<"eARC unmute delay of {earc_unmute}ms may cause noticeable audio lag.",
                          earc_unmute>>,
                        K_earcunmute, Num(earc_unmute), Num(300))
        ELSE s1

_check_dv_settings(config, self) ==
    IF ~HasLower(Get(config, K_ediddvflag, Str(T_off)))
    THEN Raise(self, "AttributeError")
    ELSE LET dv_flag == Lower(ValueOf(Get(config, K_ediddvflag, Str(T_off))))
             s1 == IF dv_flag = T_off
                   THEN _add_issue(self, SEVERITY_INFO, "Dolby Vision Disabled",
                                   <<"DV EDID flag is off.">>,
                                   K_ediddvflag, Str(T_off), Str(T_on))
                   ELSE self
         IN  IF dv_flag = T_on THEN Recommend(s1, "DV Enabled") ELSE s1

_check_hdr_settings(config, self) ==
    IF \/ ~HasLower(Get(config, K_edidhdrflag, Str(T_on)))
       \/ ~HasLower(Get(config, K_hdrcustom, Str(T_off)))
    THEN Raise(self, "AttributeError")
    ELSE LET hdr_flag == Lower(ValueOf(Get(config, K_edidhdrflag, Str(T_on))))
             hdr_custom == Lower(ValueOf(Get(config, K_hdrcustom, Str(T_off))))
             s1 == IF hdr_flag = T_off
                   THEN _add_issue(self, SEVERITY_WARNING, "HDR Disabled in EDID",
                                   <<"HDR flag is disabled.">>,
                                   K_edidhdrflag, Str(T_off), Str(T_on))
                   ELSE self
         IN  IF hdr_custom = T_on
             THEN Recommend(s1, "Custom HDR Injection Active") ELSE s1

_check_hdcp_settings(config, self) ==
    IF ~HasLower(Get(config, K_hdcpmode, Str(T_auto)))
    THEN Raise(self, "AttributeError")
    ELSE LET hdcp_mode == Lower(ValueOf(Get(config, K_hdcpmode, Str(T_auto))))
         IN  IF hdcp_mode # T_auto
             THEN _add_issue(self, SEVERITY_INFO, "Manual HDCP Mode",
                             <<"HDCP is set to '{hdcp_mode}'.", hdcp_mode>>,
                             K_hdcpmode, Str(hdcp_mode), Str(T_auto))
             ELSE self

_check_cec_settings(config, self) ==
    IF K_cecenabled \in DOMAIN config /\ Truthy(config[K_cecenabled])
    THEN Recommend(self, "CEC Enabled") ELSE self

_check_audio_routing(config, self) ==
    IF \/ ~HasLower(Get(config, K_audioout, Str(<<>>)))
       \/ ~HasLower(Get(config, K_earcmode, Str(<<>>)))
    THEN Raise(self, "AttributeError")
    ELSE LET audio_out == Lower(ValueOf(Get(config, K_audioout, Str(<<>>))))
             earc_mode == Lower(ValueOf(Get(config, K_earcmode, Str(<<>>))))
         IN  IF audio_out = T_earc \/ earc_mode \in {T_auto_earc, T_earc}
             THEN Recommend(self, "eARC Audio Routing") ELSE self

\* The seven checks in the order analyze() calls them; an exception raised by
\* one of them leaves the rest uncalled.
Check(n, config, self) ==
    CASE n = 1 -> _check_edid_mode(config, self)
      [] n = 2 -> _check_unmute_delays(config, self)
      [] n = 3 -> _check_dv_settings(config, self)
      [] n = 4 -> _check_hdr_settings(config, self)
      [] n = 5 -> _check_hdcp_settings(config, self)
      [] n = 6 -> _check_cec_settings(config, self)
      [] n = 7 -> _check_audio_routing(config, self)

RECURSIVE Checks(_, _, _)
Checks(n, config, self) ==
    IF n > 7 \/ self.raised # None THEN self
    ELSE Checks(n + 1, config, Check(n, config, self))

\* The heap is the sequence of dicts alive in the request; a reference is an
\* index into it.  copy.deepcopy of a dict of strings, integers and booleans
\* allocates one new dict with the same items.
deepcopyAliased(heap, ref) == [heap |-> heap, ref |-> ref]

deepcopy(heap, ref) == [heap |-> Append(heap, heap[ref]), ref |-> Len(heap) + 1]

\* datetime.now().isoformat()
Now == <<"2","0","2","5","-","0","1","-","0","1","T","0","0",":","0","0",":","0","0">>

AppliedEverySeverity == {SEVERITY_CRITICAL, SEVERITY_WARNING, SEVERITY_INFO}

AppliedCriticalOnly == {SEVERITY_CRITICAL}

\* The severities whose recommended value is written to the copy.
Applied == {SEVERITY_CRITICAL, SEVERITY_WARNING}

RECURSIVE ApplyIssues(_, _, _)
ApplyIssues(optimized, issues, i) ==
    IF i > Len(issues) THEN optimized
    ELSE ApplyIssues(
           IF /\ issues[i].severity \in Applied
              /\ "setting" \in DOMAIN issues[i]
              /\ "recommended_value" \in DOMAIN issues[i]
           THEN Put(optimized, issues[i].setting, issues[i].recommended_value)
           ELSE optimized,
           issues, i + 1)

Stamp(optimized) ==
    Put(Put(Put(optimized, K__optimized, Bool(TRUE)),
            K__optimized_date, Str(Now)),
        K__optimized_by, Str(T_AV_Signal_Lab))

\* Returns the heap after the call and the reference to the optimized dict.
WriteOptimized(copied, issues) ==
    [heap |-> [copied.heap EXCEPT
                 ![copied.ref] = Stamp(ApplyIssues(@, issues, 1))],
     ref |-> copied.ref]

_generate_optimized_config(heap, self) ==
    WriteOptimized(deepcopy(heap, self.config), self.issues)

CountOf(issues, severity) ==
    Cardinality({i \in 1..Len(issues) : issues[i].severity = severity})

\* analyze(): the heap after the call, the analyzer, and either the returned
\* dict or the exception that left the method.
Analyzed(self, made) ==
    [heap |-> made.heap, self |-> self, raised |-> None,
     results |-> [issues |-> self.issues,
                  recommendations |-> self.recommendations,
                  issue_count |-> [critical |-> CountOf(self.issues, SEVERITY_CRITICAL),
                                   warning |-> CountOf(self.issues, SEVERITY_WARNING),
                                   info |-> CountOf(self.issues, SEVERITY_INFO)],
                  optimized_config |-> made.heap[made.ref]]]

AnalyzeWith(heap, self) ==
    IF self.raised # None
    THEN [heap |-> heap, self |-> self, raised |-> self.raised, results |-> <<>>]
    ELSE Analyzed(self, _generate_optimized_config(heap, self))

analyze(heap, self) ==
    AnalyzeWith(heap, Checks(1, heap[self.config],
                             [self EXCEPT !.issues = <<>>,
                                          !.recommendations = <<>>]))

\* Uploaded snapshots: a mapping from setting key to a string, integer or
\* boolean.  Absent marks a key the snapshot does not hold.
Absent == [absent |-> 0]

Present(choice) ==
    [k \in {x \in DOMAIN choice : choice[x] # Absent} |-> choice[k]]

EdidModes ==
    {Absent, Str(T_fixed), Str(<<"F","i","x","e","d">>), Str(T_automix),
     Str(T_manual), Num(1)}

UnmuteDelays ==
    {Absent, Str(<<"6","0","0">>), Num(600), Num(0), Str(<<"a","b","c">>),
     Str(<<" ","5","0","1"," ">>), Num(-5), Num(500), Str(<<"1","_","0","0","0">>),
     Num(501), Num(1), Float("finite", 500, TRUE), Float("nan", 0, FALSE),
     Float("inf", 0, FALSE)}

EarcUnmutes == {Absent, Num(700), Str(<<"5","0","1">>)}

HdrFlags == {Absent, Str(T_off), Str(<<"O","F","F">>), Num(0)}

CoreSnapshots ==
    {Present(K_edidmode :> e @@ K_unmutedelay :> u @@ K_earcunmute :> a
             @@ K_edidhdrflag :> h) :
       e \in EdidModes, u \in UnmuteDelays, a \in EarcUnmutes, h \in HdrFlags}

OtherSnapshots ==
    {K_ediddvflag :> Str(T_on) @@ K_hdrcustom :> Str(T_on)
       @@ K_hdcpmode :> Str(T_manual) @@ K_cecenabled :> Bool(TRUE)
       @@ K_audioout :> Str(T_earc) @@ K_earcmode :> Str(T_auto_earc)
       @@ K_foo :> Num(7),
     K_ediddvflag :> Str(T_off) @@ K_hdcpmode :> Str(<<"A","u","t","o">>)
       @@ K_cecenabled :> Num(0) @@ K_earcmode :> Str(<<"E","A","R","C">>),
     K__optimized :> Str(<<"n","o">>) @@ K_edidmode :> Str(T_fixed)
       @@ K_foo :> Str(T_manual),
     K_ediddvflag :> Num(1),
     K_hdrcustom :> Num(0),
     K_hdcpmode :> Num(2),
     K_audioout :> Num(1),
     K_earcmode :> Num(3)}

Snapshots == CoreSnapshots \cup OtherSnapshots

MaxRounds == 1

\* What the request carries: no file part, an empty filename, bytes that are
\* not UTF-8, text that is not JSON, or a JSON object.
Uploads ==
    {[file |-> f, config |-> EmptyDict] :
       f \in {"missing", "unnamed", "not utf-8", "not json"}}
      \cup {[file |-> "json", config |-> s] : s \in Snapshots}

AnalyzeCall(upload) ==
    [name |-> "analyze_config", file |-> upload.file, config |-> upload.config]

\* json.dump writes the optimized dict to the export folder; json.loads of that
\* file gives back the same keys with the same strings, integers and booleans.
ExportFile(results) ==
    IF results.optimized_config # EmptyDict
    THEN <<[file |-> "vrroom_optimized_{uuid}.json",
            content |-> results.optimized_config]>>
    ELSE <<>>

Respond(a) ==
    IF a.raised # None THEN [status |-> 500, raised |-> a.raised]
    ELSE [status |-> 200,
          results |-> IF a.results.optimized_config # EmptyDict
                      THEN Put(a.results, "download_filename",
                               "vrroom_optimized_{uuid}.json")
                      ELSE a.results]

\* The request holds the decoded dict at heap reference 1.
Serve(r, c, n, a) ==
    /\ pc' = [pc EXCEPT ![r] = "done"]
    /\ call' = [call EXCEPT ![r] = c]
    /\ idx' = [idx EXCEPT ![r] = n]
    /\ local' = [local EXCEPT ![r] = [heap |-> a.heap, config_data |-> 1,
                                      analyzer |-> a.self]]
    /\ result' = [result EXCEPT ![r] = Respond(a)]
    /\ log' = [log EXCEPT ![r] =
                 IF a.raised = None THEN ExportFile(a.results) ELSE <<>>]
    /\ UNCHANGED <<conn, net, faults>>

analyze_config(r) ==
    /\ pc[r] = "idle"
    /\ \E u \in Uploads :
         \/ /\ u.file = "missing"
            /\ Reject(r, AnalyzeCall(u), 400, "No file uploaded")
         \/ /\ u.file = "unnamed"
            /\ Reject(r, AnalyzeCall(u), 400, "No file selected")
         \/ /\ u.file = "not json"
            /\ Reject(r, AnalyzeCall(u), 400, "Invalid JSON")
         \/ /\ u.file = "not utf-8"
            /\ Reject(r, AnalyzeCall(u), 400, "File must be UTF-8 encoded JSON")
         \/ /\ u.file = "json"
            /\ Serve(r, AnalyzeCall(u), 0,
                     analyze(<<u.config>>, VrroomConfigAnalyzer(1)))

\* The downloaded optimized file is uploaded again.
analyze_exported(r) ==
    /\ pc[r] = "done"
    /\ call[r].name = "analyze_config"
    /\ idx[r] < MaxRounds
    /\ log[r] # <<>>
    /\ Serve(r, AnalyzeCall([file |-> "json", config |-> log[r][1].content]),
             idx[r] + 1,
             analyze(<<log[r][1].content>>, VrroomConfigAnalyzer(1)))

NextAnalyze == analyze_config("r1") \/ analyze_exported("r1")

SpecAnalyze == Init /\ [][NextAnalyze]_vars

\* C11: running the config analysis, the synthesis of the corrected snapshot
\* included, leaves the dict it was given unchanged: after the call the
\* caller's dict holds the keys and values that were submitted, and no other
\* key.
C11_InputUnchanged ==
    \A r \in Runs :
       (pc[r] = "done" /\ call[r].name = "analyze_config" /\ call[r].file = "json")
       => /\ DOMAIN local[r].heap[local[r].config_data] = DOMAIN call[r].config
          /\ \A k \in DOMAIN call[r].config :
                local[r].heap[local[r].config_data][k] = call[r].config[k]

C11_Witness ==
    /\ pc["r1"] = "done"
    /\ call["r1"].name = "analyze_config"
    /\ call["r1"].file = "json"
    /\ result["r1"].status = 200
    /\ call["r1"].config = (K_edidmode :> Str(T_fixed) @@ K_unmutedelay :> Num(600))
    /\ result["r1"].results.optimized_config # call["r1"].config
    /\ local["r1"].analyzer.config = local["r1"].config_data

AnalysisReturned(r) ==
    /\ pc[r] = "done"
    /\ call[r].name = "analyze_config"
    /\ call[r].file = "json"
    /\ result[r].status = 200

\* C12: analysing the corrected snapshot that the config analysis produced
\* returns, and reports no issue of severity critical or warning.
C12_CorrectedSnapshotClean ==
    \A r \in Runs :
       (pc[r] = "done" /\ call[r].name = "analyze_config"
          /\ call[r].file = "json" /\ idx[r] >= 1)
       => /\ result[r].status = 200
          /\ result[r].results.issue_count.critical = 0
          /\ result[r].results.issue_count.warning = 0
          /\ \A i \in 1..Len(result[r].results.issues) :
                result[r].results.issues[i].severity \notin {"critical", "warning"}

C12_Witness ==
    /\ AnalysisReturned("r1")
    /\ idx["r1"] = 1
    /\ K__optimized_by \in DOMAIN call["r1"].config
    /\ Get(call["r1"].config, K_edidmode, NoneValue) = Str(T_automix)
    /\ Get(call["r1"].config, K_unmutedelay, NoneValue) = Num(250)
    /\ Get(call["r1"].config, K_earcunmute, NoneValue) = Num(300)
    /\ Get(call["r1"].config, K_edidhdrflag, NoneValue) = Str(T_on)
    /\ Len(result["r1"].results.issues) > 0

BookkeepingKeys == {K__optimized, K__optimized_date, K__optimized_by}

\* The recommended value of the last critical or warning issue naming key k.
Recommended(issues, k) ==
    LET named == {i \in 1..Len(issues) :
                    /\ issues[i].severity \in {"critical", "warning"}
                    /\ "setting" \in DOMAIN issues[i]
                    /\ "recommended_value" \in DOMAIN issues[i]
                    /\ issues[i].setting = k}
    IN  IF named = {} THEN NoneValue
        ELSE issues[CHOOSE i \in named : \A j \in named : j <= i].recommended_value

\* C13: the corrected snapshot is the input snapshot with (a) every key named
\* by a critical or warning issue that carries a recommended value set to that
\* value and (b) the three bookkeeping keys added; every other key, those
\* named only by info issues and unknown ones included, keeps its input value.
C13_CorrectedSnapshotFrame ==
    \A r \in Runs :
       AnalysisReturned(r)
       => /\ BookkeepingKeys \subseteq DOMAIN result[r].results.optimized_config
          /\ DOMAIN call[r].config \subseteq DOMAIN result[r].results.optimized_config
          /\ \A k \in DOMAIN result[r].results.optimized_config \ BookkeepingKeys :
                IF Recommended(result[r].results.issues, k) # NoneValue
                THEN result[r].results.optimized_config[k]
                       = Recommended(result[r].results.issues, k)
                ELSE /\ k \in DOMAIN call[r].config
                     /\ result[r].results.optimized_config[k] = call[r].config[k]

C13_Witness ==
    /\ AnalysisReturned("r1")
    /\ idx["r1"] = 0
    /\ call["r1"].config = (K_edidmode :> Str(T_fixed)
                              @@ K_unmutedelay :> Str(<<"6","0","0">>))
    /\ result["r1"].results.optimized_config
         = (K_edidmode :> Str(T_automix) @@ K_unmutedelay :> Num(250)
              @@ K__optimized :> Bool(TRUE) @@ K__optimized_date :> Str(Now)
              @@ K__optimized_by :> Str(T_AV_Signal_Lab))
    /\ result["r1"].results.issue_count = [critical |-> 1, warning |-> 1, info |-> 1]

StringOrInteger(config) ==
    \A k \in DOMAIN config : TypeOf(config[k]) \in {"str", "int"}

\* C20: for a snapshot whose values are all strings or integers, the config
\* analysis returns its issues and corrected snapshot without raising.
C20_AnalysisNeverRaises ==
    \A r \in Runs :
       (pc[r] = "done" /\ call[r].name = "analyze_config"
          /\ call[r].file = "json" /\ StringOrInteger(call[r].config))
       => /\ result[r].status = 200
          /\ "raised" \notin DOMAIN result[r]

\* ---------------------------------------------------------------------------
\* Diagnostic runs against every box, the one without sources included
\* ---------------------------------------------------------------------------
NextChain ==
    \E r \in {"r1"} :
        \/ diagnose_hdr_signal_chain(r, Devices \cup {"boxC", "boxD"})
        \/ Connect(r)
        \/ Step(r)

SpecChain == Init /\ [][NextChain]_vars

Diagnosed(r) ==
    /\ pc[r] = "done"
    /\ call[r].name = "diagnose_hdr_signal_chain"
    /\ "issues" \in DOMAIN result[r]

Titled(entries, title) == {i \in 1..Len(entries) : entries[i].title = title}

LostInResult(r) ==
    /\ result[r].hdr_status.input.format # "SDR"
    /\ result[r].hdr_status.output.format = "SDR"

\* C18: after a diagnostic run the critical issue "HDR Lost in Signal Chain"
\* is present exactly when the recorded input format is not SDR and the
\* recorded output format is SDR; "Enable HDR EDID Flag" is recommended only
\* then and only when edidhdrflag reads off, "Disable HDR Disable Setting"
\* only then and only when hdrdisable reads on.
C18_HdrLostRule ==
    \A r \in Runs :
       Diagnosed(r)
       => /\ (Titled(result[r].issues, "HDR Lost in Signal Chain") # {})
               <=> LostInResult(r)
          /\ \A i \in Titled(result[r].issues, "HDR Lost in Signal Chain") :
                result[r].issues[i].severity = "critical"
          /\ Titled(result[r].recommendations, "Enable HDR EDID Flag") # {}
               => /\ LostInResult(r)
                  /\ Lower(Get(result[r].settings, K_edidhdrflag, <<>>)) = T_off
          /\ Titled(result[r].recommendations, "Disable HDR Disable Setting") # {}
               => /\ LostInResult(r)
                  /\ Lower(Get(result[r].settings, K_hdrdisable, <<>>)) = T_on

C18_Witness ==
    /\ Diagnosed("r1")
    /\ LostInResult("r1")
    /\ result["r1"].hdr_status.input.format = "Dolby Vision"
    /\ Titled(result["r1"].issues, "HDR Lost in Signal Chain") # {}
    /\ Titled(result["r1"].recommendations, "Enable HDR EDID Flag") # {}
    /\ Titled(result["r1"].recommendations, "Disable HDR Disable Setting") # {}

InputStages(chain) == {i \in 1..Len(chain) : chain[i].type = "input"}

AllInputsDisconnected(chain) ==
    \A i \in InputStages(chain) :
        "connected" \in DOMAIN chain[i] /\ chain[i].connected = FALSE

\* C19: after a diagnostic run the issues hold the warning "No Input Signal
\* Detected" exactly once if every input stage was recorded as disconnected,
\* and not at all if some input stage is connected or is an error entry.
C19_NoInputWarning ==
    \A r \in Runs :
       Diagnosed(r)
       => /\ AllInputsDisconnected(result[r].signal_chain)
               => Cardinality(Titled(result[r].issues, "No Input Signal Detected")) = 1
          /\ ~AllInputsDisconnected(result[r].signal_chain)
               => Titled(result[r].issues, "No Input Signal Detected") = {}
          /\ \A i \in Titled(result[r].issues, "No Input Signal Detected") :
                result[r].issues[i].severity = "warning"

C19_Witness ==
    /\ Diagnosed("r1")
    /\ Cardinality(InputStages(result["r1"].signal_chain)) = 2
    /\ AllInputsDisconnected(result["r1"].signal_chain)
    /\ Titled(result["r1"].issues, "No Input Signal Detected") # {}

\* A run in which one input stage is an error entry and the other is
\* disconnected: no warning.
C19_ErrorEntryWitness ==
    /\ Diagnosed("r1")
    /\ \E i \in InputStages(result["r1"].signal_chain) :
          "error" \in DOMAIN result["r1"].signal_chain[i]
    /\ \A i \in InputStages(result["r1"].signal_chain) :
          "error" \in DOMAIN result["r1"].signal_chain[i]
            \/ IsDisconnected(result["r1"].signal_chain[i])
    /\ Titled(result["r1"].issues, "No Input Signal Detected") = {}

\* ---------------------------------------------------------------------------
\* The signal-status parser by itself, over status strings built from words
\* ---------------------------------------------------------------------------

\* Words a status line is made of.  res: the word matches the resolution
\* pattern; hdr: the word by itself selects a format other than SDR.
StatusWords ==
    << 
       [text |-> <<"3","8","4","0","x","2","1","6","0","p","6","0">>, res |-> TRUE, hdr |-> FALSE],
       [text |-> <<"1","9","2","0","X","1","0","8","0","I","5","0">>, res |-> TRUE, hdr |-> FALSE],
       [text |-> <<"3","8","4","0","x","2","1","6","0">>, res |-> FALSE, hdr |-> FALSE],
       [text |-> <<"x","1","0","8","0","p","6","0">>, res |-> FALSE, hdr |-> FALSE],
       [text |-> <<"d","v">>, res |-> FALSE, hdr |-> TRUE],
       [text |-> <<"L","L","D","V">>, res |-> FALSE, hdr |-> FALSE],
       [text |-> <<"D","o","l","b","y">>, res |-> FALSE, hdr |-> TRUE],
       [text |-> <<"D","V","I">>, res |-> FALSE, hdr |-> FALSE],
       [text |-> <<"H","D","R","1","0","+">>, res |-> FALSE, hdr |-> TRUE],
       [text |-> <<"h","d","r","1","0","p","l","u","s">>, res |-> FALSE, hdr |-> TRUE],
       [text |-> <<"H","D","R","1","0">>, res |-> FALSE, hdr |-> TRUE],
       [text |-> <<"H","D","R">>, res |-> FALSE, hdr |-> TRUE],
       [text |-> <<"H","D","R","X">>, res |-> FALSE, hdr |-> FALSE],
       [text |-> <<"H","L","G">>, res |-> FALSE, hdr |-> TRUE],
       [text |-> <<"H","L","G","X">>, res |-> FALSE, hdr |-> FALSE],
       [text |-> <<"4","4","4">>, res |-> FALSE, hdr |-> FALSE],
       [text |-> <<"1","2","b">>, res |-> FALSE, hdr |-> FALSE],
       [text |-> <<"B","T",".","2","0","2","0">>, res |-> FALSE, hdr |-> FALSE],
       [text |-> <<"n","o">>, res |-> FALSE, hdr |-> FALSE] >>

MaxWords == 2

WordLists ==
    UNION {[1..n -> {StatusWords[i] : i \in 1..Len(StatusWords)}] :
             n \in 0..MaxWords}

RECURSIVE JoinWords(_, _)
JoinWords(ws, i) ==
    IF i > Len(ws) THEN <<>>
    ELSE (IF i > 1 THEN <<SP>> ELSE <<>>) \o ws[i].text \o JoinWords(ws, i + 1)

\* A resolution word whose refresh rate has one digit more than int() takes.
LongRefresh ==
    [text |-> <<"1","x","1","p">> \o [i \in 1..(int_max_str_digits + 1) |-> "1"],
     res |-> TRUE, hdr |-> FALSE]

\* The response of a status query: the words separated by one space, or a
\* line of whitespace only.
StatusLines ==
    {[words |-> ws, response |-> JoinWords(ws, 1)] : ws \in WordLists}
      \cup {[words |-> <<>>, response |-> <<SP, SP>>],
            [words |-> <<>>, response |-> <<"\t">>],
            [words |-> <<LongRefresh>>, response |-> LongRefresh.text]}

ParseCall(line) ==
    [name |-> "_parse_signal_status", words |-> line.words,
     response |-> line.response, port |-> K_rx0]

InitParse ==
    /\ pc = [r \in Runs |-> "idle"]
    /\ \E line \in StatusLines :
          call = [r \in Runs |-> IF r = "r1" THEN ParseCall(line)
                                 ELSE NewCall(None, None)]
    /\ conn = [r \in Runs |-> NewConnection(None)]
    /\ net = [r \in Runs |-> NoSocket]
    /\ idx = [r \in Runs |-> 0]
    /\ local = [r \in Runs |-> <<>>]
    /\ result = [r \in Runs |-> <<>>]
    /\ log = [r \in Runs |-> <<>>]
    /\ faults = 0

Parse(r) ==
    /\ pc[r] = "idle"
    /\ call[r].name = "_parse_signal_status"
    /\ pc' = [pc EXCEPT ![r] = "done"]
    /\ result' = [result EXCEPT ![r] =
                    _parse_signal_status(call[r].response, call[r].port)]
    /\ UNCHANGED <<call, conn, net, idx, local, log, faults>>

NextParse == Parse("r1")

SpecParse == InitParse /\ [][NextParse]_vars

Parsed(r) == pc[r] = "done" /\ call[r].name = "_parse_signal_status"

NoWord(ws, kind) == \A i \in 1..Len(ws) : ~ws[i][kind]

\* C16: for every raw status string, the empty one included, the parser
\* returns a descriptor without raising; the descriptor keeps the raw string
\* unchanged, resolution and refresh rate are null when no word has the
\* resolution pattern, and the HDR format is SDR when no word selects a format.
C16_ParserTotalWithDefaults ==
    \A r \in Runs :
       Parsed(r)
       => /\ "raised" \notin DOMAIN result[r]
          /\ {"raw", "resolution", "refresh_rate", "hdr_format"}
               \subseteq DOMAIN result[r]
          /\ result[r].raw = call[r].response
          /\ NoWord(call[r].words, "res")
               => /\ result[r].resolution = NoneText
                  /\ result[r].refresh_rate = NoneInt
          /\ NoWord(call[r].words, "hdr") => result[r].hdr_format = "SDR"
          /\ result[r].hdr_format
               \in {"SDR", "HDR10", "HDR10+", "HLG", "Dolby Vision", "LLDV"}

\* The same for the strings on which the parser returns.
C16_DefaultsWhereReturned ==
    \A r \in Runs :
       (Parsed(r) /\ "raised" \notin DOMAIN result[r])
       => /\ result[r].raw = call[r].response
          /\ NoWord(call[r].words, "res")
               => /\ result[r].resolution = NoneText
                  /\ result[r].refresh_rate = NoneInt
          /\ NoWord(call[r].words, "hdr") => result[r].hdr_format = "SDR"

\* The chain as the claim words it: DV and DOLBY anywhere in the string.
ChainAsStated(response) ==
    LET up == Upper(response)
        parts == Split(up)
    IN  IF Contains(up, P_DV) \/ Contains(up, P_DOLBY)
        THEN IF Contains(up, P_LLDV) THEN "LLDV" ELSE "Dolby Vision"
        ELSE IF Contains(up, P_HDR10Plus) \/ Contains(up, P_HDR10PLUS) THEN "HDR10+"
        ELSE IF Contains(up, P_HDR10) \/ IsIn(parts, P_HDR) THEN "HDR10"
        ELSE IF IsIn(parts, P_HLG) THEN "HLG"
        ELSE "SDR"

\* C17: the parsed HDR format is the first match of the chain: contains DV or
\* DOLBY -> LLDV if it also contains LLDV, else Dolby Vision; else contains
\* HDR10+ or HDR10PLUS -> HDR10+; else contains HDR10 or has the word HDR ->
\* HDR10; else has the word HLG -> HLG; else SDR.
C17_PriorityChain ==
    \A r \in Runs :
       (Parsed(r) /\ "raised" \notin DOMAIN result[r])
       => result[r].hdr_format = ChainAsStated(call[r].response)

\* ---------------------------------------------------------------------------
\* Recommendation synthesis (SetupRecommendationEngine)
\* ---------------------------------------------------------------------------

\* DEVICE_PROFILES.get(id, {}): the attributes the engine reads.  found is
\* the truth value of the profile dict; an unknown or empty id gives {}.
NoDisplay ==
    [found |-> FALSE, name |-> "", type |-> "", handshake_time_ms |-> 0,
     vrr_support |-> FALSE, allm_support |-> FALSE, native_dv |-> FALSE,
     hdr_support |-> <<>>, lens_memory |-> FALSE, hdmi_signal |-> FALSE,
     recommended_settings |-> {}]

displays(id) ==
    CASE id = "jvc_dla_nz8" ->
           [found |-> TRUE, name |-> "JVC DLA-NZ8", type |-> "projector",
            handshake_time_ms |-> 3000, vrr_support |-> FALSE,
            allm_support |-> FALSE, native_dv |-> FALSE,
            hdr_support |-> <<"HDR10", "HLG", "HDR10+">>, lens_memory |-> TRUE,
            hdmi_signal |-> TRUE,
            recommended_settings |-> {"color_mode_sdr", "color_mode_hdr",
                                      "gamma_hdr", "frame_interpolation",
                                      "hdmi_signal_format"}]
      [] id = "lg_c3_oled" ->
           [found |-> TRUE, name |-> "LG C3 OLED", type |-> "tv",
            handshake_time_ms |-> 1500, vrr_support |-> TRUE,
            allm_support |-> TRUE, native_dv |-> TRUE,
            hdr_support |-> <<"HDR10", "HLG", "Dolby Vision">>,
            lens_memory |-> FALSE, hdmi_signal |-> FALSE,
            recommended_settings |-> {}]
      [] id = "samsung_qn90c" ->
           [found |-> TRUE, name |-> "Samsung QN90C", type |-> "tv",
            handshake_time_ms |-> 1800, vrr_support |-> TRUE,
            allm_support |-> TRUE, native_dv |-> FALSE,
            hdr_support |-> <<"HDR10", "HDR10+", "HLG">>,
            lens_memory |-> FALSE, hdmi_signal |-> FALSE,
            recommended_settings |-> {}]
      [] OTHER -> NoDisplay

NoHdfury ==
    [found |-> FALSE, name |-> "", lldv_support |-> FALSE,
     vrr_support |-> FALSE, allm_support |-> FALSE, earc_support |-> FALSE]

hdfury_devices(id) ==
    CASE id = "vrroom" ->
           [found |-> TRUE, name |-> "HDFury Vrroom", lldv_support |-> TRUE,
            vrr_support |-> TRUE, allm_support |-> TRUE, earc_support |-> TRUE]
      [] id = "arcana" ->
           [found |-> TRUE, name |-> "HDFury Arcana", lldv_support |-> FALSE,
            vrr_support |-> TRUE, allm_support |-> TRUE, earc_support |-> TRUE]
      [] OTHER -> NoHdfury

NoAvr ==
    [found |-> FALSE, name |-> "", earc_support |-> FALSE,
     handshake_time_ms |-> 0, room_correction |-> ""]

avrs(id) ==
    CASE id = "denon_avr_x3800h" ->
           [found |-> TRUE, name |-> "Denon AVR-X3800H", earc_support |-> TRUE,
            handshake_time_ms |-> 600,
            room_correction |-> "Audyssey MultEQ XT32"]
      [] id = "yamaha_rx_a4a" ->
           [found |-> TRUE, name |-> "Yamaha RX-A4A", earc_support |-> TRUE,
            handshake_time_ms |-> 500, room_correction |-> "YPAO"]
      [] OTHER -> NoAvr

NoSpeakers ==
    [found |-> FALSE, name |-> "", atmos_capable |-> FALSE, layout |-> "",
     overhead_channels |-> 0, sub_channels |-> 0, soundbar |-> FALSE]

\* soundbar: "soundbar" in speaker_id
speakers(id) ==
    CASE id = "atmos_5_2_2" ->
           [found |-> TRUE, name |-> "5.2.2 Atmos", atmos_capable |-> TRUE,
            layout |-> "5.2.2", overhead_channels |-> 2, sub_channels |-> 2,
            soundbar |-> FALSE]
      [] id = "soundbar_basic" ->
           [found |-> TRUE, name |-> "Soundbar (Basic)", atmos_capable |-> FALSE,
            layout |-> "varies", overhead_channels |-> 0, sub_channels |-> 0,
            soundbar |-> TRUE]
      [] OTHER -> NoSpeakers

NoScreen == [found |-> FALSE, name |-> "", acoustically_transparent |-> FALSE]

screens(id) ==
    CASE id = "screen_120_at" ->
           [found |-> TRUE, name |-> "120\" Acoustically Transparent",
            acoustically_transparent |-> TRUE]
      [] OTHER -> NoScreen

NoSource ==
    [found |-> FALSE, id |-> "", name |-> "", match_frame_rate |-> FALSE,
     match_resolution |-> FALSE, lldv_output |-> FALSE, dv_output |-> FALSE,
     max_refresh |-> 0]

sources(id) ==
    CASE id = "apple_tv_4k" ->
           [found |-> TRUE, id |-> id, name |-> "Apple TV 4K (2022)",
            match_frame_rate |-> TRUE, match_resolution |-> FALSE,
            lldv_output |-> TRUE, dv_output |-> TRUE, max_refresh |-> 60]
      [] id = "xbox_series_x" ->
           [found |-> TRUE, id |-> id, name |-> "Xbox Series X",
            match_frame_rate |-> FALSE, match_resolution |-> FALSE,
            lldv_output |-> FALSE, dv_output |-> TRUE, max_refresh |-> 120]
      [] id = "ps5" ->
           [found |-> TRUE, id |-> id, name |-> "PlayStation 5",
            match_frame_rate |-> FALSE, match_resolution |-> FALSE,
            lldv_output |-> FALSE, dv_output |-> FALSE, max_refresh |-> 120]
      [] id = "nvidia_shield_pro" ->
           [found |-> TRUE, id |-> id, name |-> "Nvidia Shield Pro",
            match_frame_rate |-> TRUE, match_resolution |-> TRUE,
            lldv_output |-> TRUE, dv_output |-> TRUE, max_refresh |-> 60]
      [] OTHER -> NoSource

NoMediaServer == [found |-> FALSE, id |-> "", name |-> ""]

media_servers(id) ==
    CASE id = "emby" -> [found |-> TRUE, id |-> id, name |-> "Emby"]
      [] id = "plex" -> [found |-> TRUE, id |-> id, name |-> "Plex"]
      [] OTHER -> NoMediaServer

\* [s for s in ids if s], then the profiles that exist, in order
Profiles(ids, Table(_)) ==
    SelectSeq([i \in 1..Len(ids) |-> Table(ids[i])], LAMBDA p : p.found)

\* SetupRecommendationEngine(setup)
SetupRecommendationEngine(setup) ==
    [goals |-> setup.goals,
     display |-> displays(setup.display),
     hdfury |-> hdfury_devices(setup.hdfury_device),
     avr |-> avrs(setup.avr),
     speakers |-> speakers(setup.speakers),
     screen |-> screens(setup.screen),
     sources |-> Profiles(setup.sources, sources),
     source |-> IF Profiles(setup.sources, sources) = <<>> THEN NoSource
                ELSE Profiles(setup.sources, sources)[1],
     source_id |-> IF SelectSeq(setup.sources, LAMBDA s : s # "") = <<>> THEN ""
                   ELSE SelectSeq(setup.sources, LAMBDA s : s # "")[1],
     media_server |-> IF Profiles(setup.media_servers, media_servers) = <<>>
                      THEN NoMediaServer
                      ELSE Profiles(setup.media_servers, media_servers)[1],
     media_server_id |->
        IF SelectSeq(setup.media_servers, LAMBDA s : s # "") = <<>> THEN ""
        ELSE SelectSeq(setup.media_servers, LAMBDA s : s # "")[1]]

\* One recommendation; one suggested source setting.  The free-text
\* description and reason carry no decision and are left out.
Rec(severity, title) == [severity |-> severity, title |-> title]

SourceSetting(setting, value, device) == [setting |-> setting, value |-> value, device |-> device]

\* what every handler returns
Partial(recs, settings, src) == [recommendations |-> recs, vrroom_settings |-> settings, source_settings |-> src]

When(cond, entries) == IF cond THEN entries ELSE <<>>

RECURSIVE Flatten(_, _)
Flatten(lists, i) ==
    IF i > Len(lists) THEN <<>> ELSE lists[i] \o Flatten(lists, i + 1)

\* the entries a loop over items appends, Body(item) for each in turn
ForEach(items, Body(_)) == Flatten([i \in DOMAIN items |-> Body(items[i])], 1)

\* dict.update(other)
update(d, other) ==
    [k \in DOMAIN d \cup DOMAIN other |-> IF k \in DOMAIN other THEN other[k] ELSE d[k]]

\* ', '.join(parts)
RECURSIVE join(_, _)
join(parts, i) ==
    IF i > Len(parts) THEN ""
    ELSE IF i = Len(parts) THEN parts[i]
    ELSE parts[i] \o ", " \o join(parts, i + 1)

SlowHandshake(self) == self.display.found /\ self.display.handshake_time_ms >= 2500

\* variant: the baseline rule without its settings
_general_equipment_recsNoPatch(self) == Partial(<<>>, EmptyDict, <<>>)

_general_equipment_recs(self) ==
    Partial(
      When(SlowHandshake(self),
           <<Rec("info", self.display.name \o " Has Slow Handshake")>>)
      \o When(self.avr.found /\ self.avr.earc_support,
              <<Rec("info", "eARC Recommended for Audio")>>),
      Put(EmptyDict, K_hdcpmode, Str("auto")),
      ForEach(self.sources, LAMBDA source :
         When(source.match_frame_rate,
              <<SourceSetting("Match Frame Rate (" \o source.name \o ")",
                              "Enabled", source.name)>>)
         \o When(source.match_resolution,
                 <<SourceSetting("Match Resolution (" \o source.name \o ")",
                                 "Enabled", source.name)>>)))

unmute(self) == IF self.avr.found /\ self.avr.handshake_time_ms > 500 THEN 250 ELSE 200

_goal_avoid_bonk(self) ==
    Partial(
      <<Rec("critical", "Match Pre-roll Format to Library Content"),
        Rec("warning", "Set Unmute Delay to " \o ToString(unmute(self)) \o "ms")>>
      \o When(SlowHandshake(self),
              <<Rec("warning", "Consider Fixed Output Resolution")>>)
      \o When(self.media_server.found,
              <<Rec("info", "Pre-roll Format for " \o self.media_server.name)>>),
      Put(Put(EmptyDict, K_edidmode, Str("automix")),
          K_unmutedelay, Num(unmute(self))),
      When(SlowHandshake(self),
           ForEach(self.sources, LAMBDA source :
              <<SourceSetting("Output Resolution (" \o source.name \o ")",
                              "4K (fixed)", source.name)>>)))

LldvSettings ==
    Put(Put(Put(Put(Put(EmptyDict, K_edidmode, Str("automix")),
                    K_ediddvflag, Str("on")),
                K_ediddvmode, Num(1)),
            K_edidhdrflag, Str("on")),
        K_edidhdrmode, Num(1))

_goal_lldv_non_dv(self) ==
    IF self.display.found /\ self.display.native_dv
    THEN Partial(<<Rec("info", "Display Has Native Dolby Vision")>>,
                 Put(EmptyDict, K_ediddvflag, Str("on")), <<>>)
    ELSE IF self.hdfury.found /\ ~self.hdfury.lldv_support
    THEN Partial(<<Rec("critical", "HDFury Device Does Not Support LLDV")>>,
                 EmptyDict, <<>>)
    ELSE Partial(
           <<Rec("critical", "Enable LLDV in AutoMix Mode"),
             Rec("warning", "Select LLDV DV String"),
             Rec("info", "LLDV Under VRR Signals")>>
           \o (IF self.source.found /\ self.source.lldv_output
               THEN <<Rec("info", self.source.name \o " Supports LLDV Output")>>
               ELSE When(self.source.found /\ ~self.source.dv_output,
                         <<Rec("warning", "Source Has No DV Output")>>)),
           LldvSettings, <<>>)

has_atmos(self) == self.speakers.found /\ self.speakers.atmos_capable
has_earc_avr(self) == self.avr.found /\ self.avr.earc_support
has_earc_hdfury(self) == self.hdfury.found /\ self.hdfury.earc_support
is_soundbar(self) == self.speakers.found /\ self.speakers.soundbar

_goal_best_audio(self) ==
    Partial(
      (IF has_earc_avr(self) /\ has_earc_hdfury(self)
       THEN <<Rec("critical", "Use eARC for Audio Routing")>>
       ELSE When(is_soundbar(self) /\ has_earc_hdfury(self),
                 <<Rec("warning", "eARC for Soundbar")>>))
      \o When(has_atmos(self), <<Rec("info", "Atmos Speaker Layout Detected")>>)
      \o When(has_earc_avr(self), <<Rec("info", "eARC Unmute Delay: 200ms")>>),
      update(IF has_earc_hdfury(self) /\ (has_earc_avr(self) \/ is_soundbar(self))
             THEN Put(EmptyDict, K_earcmode, Str("auto earc")) ELSE EmptyDict,
             IF has_earc_avr(self)
             THEN Put(EmptyDict, K_earcunmute, Num(200)) ELSE EmptyDict),
      When(has_atmos(self),
           ForEach(self.sources, LAMBDA source :
              <<SourceSetting("Audio Output (" \o source.name \o ")",
                              "Bitstream (passthrough)", source.name)>>)))

display_vrr(self) == self.display.found /\ self.display.vrr_support
display_allm(self) == self.display.found /\ self.display.allm_support
hdfury_vrr(self) == self.hdfury.found /\ self.hdfury.vrr_support
hdfury_allm(self) == self.hdfury.found /\ self.hdfury.allm_support

_goal_gaming_low_latency(self) ==
    Partial(
      When(~display_vrr(self) /\ self.display.found,
           <<Rec("warning", self.display.name \o " Does Not Support VRR")>>)
      \o When(~display_allm(self) /\ self.display.found,
              <<Rec("info", self.display.name \o " Does Not Support ALLM")>>)
      \o (IF hdfury_vrr(self) /\ display_vrr(self)
          THEN <<Rec("critical", "Enable VRR Passthrough")>>
          ELSE When(hdfury_vrr(self),
                    <<Rec("info", "VRR Passthrough Available but Display Incompatible")>>))
      \o (IF hdfury_allm(self) /\ display_allm(self)
          THEN <<Rec("info", "ALLM Passthrough Enabled")>>
          ELSE When(hdfury_allm(self),
                    <<Rec("info", "ALLM Passthrough Available but Display Incompatible")>>))
      \o <<Rec("warning", "Disable Custom HDR Injection for Gaming"),
           Rec("info", "Minimize Unmute Delay for Gaming")>>,
      update(update(IF hdfury_vrr(self) /\ display_vrr(self)
                    THEN Put(EmptyDict, K_edidvrrflag, Str("on")) ELSE EmptyDict,
                    IF hdfury_allm(self) /\ display_allm(self)
                    THEN Put(EmptyDict, K_edidallmflag, Str("on")) ELSE EmptyDict),
             Put(Put(EmptyDict, K_hdrcustom, Str("off")), K_unmutedelay, Num(100))),
      ForEach(self.sources, LAMBDA source :
         When(source.max_refresh >= 120,
              <<SourceSetting("Output Resolution (" \o source.name \o ")",
                              "4K 120Hz", source.name)>>)))

_goal_fix_preroll(self) ==
    Partial(
      <<Rec("critical", "Pre-roll Format Must Match Main Content"),
        Rec("critical", "Recommended Pre-roll Encoding"),
        Rec("warning", "Use the Pre-roll Analyzer Tab")>>
      \o When(self.media_server.found /\ self.media_server_id = "emby",
              <<Rec("info", "Emby Pre-roll Known Issue")>>)
      \o When(self.media_server.found,
              <<Rec("info", "Test with Multiple " \o self.media_server.name \o " Clients")>>),
      Put(EmptyDict, K_edidmode, Str("automix")),
      <<>>)

hdr_list(self) == IF self.display.found THEN self.display.hdr_support ELSE <<>>

_goal_hdr_passthrough(self) ==
    Partial(
      <<Rec("critical", "Enable HDR in EDID")>>
      \o When(hdr_list(self) # <<>>,
              <<Rec("info", "Display HDR Support: " \o join(hdr_list(self), 1))>>)
      \o <<Rec("info", "HDCP Set to Auto")>>,
      Put(Put(Put(Put(EmptyDict, K_edidhdrflag, Str("on")),
                  K_edidhdrmode,
                  IF \E i \in DOMAIN hdr_list(self) : hdr_list(self)[i] = "HDR10+"
                  THEN Num(2) ELSE Num(1)),
              K_edidmode, Str("automix")),
          K_hdcpmode, Str("auto")),
      <<>>)

_goal_minimize_format_switch(self) ==
    Partial(
      <<Rec("critical", "Set Source to Fixed Output Format"),
        Rec("info", "AutoMix Prevents EDID Re-reads")>>,
      Put(EmptyDict, K_edidmode, Str("automix")),
      When(self.source.found,
           When(self.source.match_frame_rate,
                <<SourceSetting("Match Frame Rate", "Enabled", self.source.name)>>)
           \o <<SourceSetting("Output Resolution", "4K (always)", self.source.name)>>
           \o When(self.source_id = "apple_tv_4k",
                   <<SourceSetting("Video Format", "4K SDR 60Hz", self.source.name)>>)))

\* avr_settings and display_settings are modelled by their setting names.
_avr_config_recs(self) ==
    IF ~self.avr.found \/ ~self.speakers.found
    THEN [recommendations |-> <<>>, avr_settings |-> <<>>]
    ELSE [recommendations |->
            When(self.speakers.atmos_capable,
                 <<Rec("info", "Atmos Configuration for " \o self.avr.name)>>)
            \o When(self.avr.room_correction # "",
                    <<Rec("warning", "Run " \o self.avr.room_correction \o " Calibration")>>),
          avr_settings |->
            <<"Speaker Configuration", "Crossover Frequency (all channels)">>
            \o When(self.speakers.sub_channels >= 2, <<"Subwoofer Mode">>)
            \o When(self.speakers.overhead_channels \in {2, 4}
                    /\ self.speakers.atmos_capable,
                    <<"Height Speaker Assignment">>)
            \o When(self.speakers.atmos_capable, <<"Surround Decode Mode">>)
            \o <<"HDMI Audio Output">>
            \o When(self.avr.earc_support, <<"eARC">>)
            \o When(self.avr.room_correction # "",
                    <<"Room Correction (" \o self.avr.room_correction \o ")">>)
            \o <<"Speaker Distances", "Speaker Levels">>]

\* config_paths or recommended_settings of the profile is not empty
HasDisplayGuide(display) == display.hdmi_signal \/ display.recommended_settings # {}

_display_config_recs(self) ==
    IF ~self.display.found \/ ~HasDisplayGuide(self.display)
    THEN [recommendations |-> <<>>, display_settings |-> <<>>]
    ELSE [recommendations |->
            IF self.display.type = "projector"
            THEN When(self.screen.found,
                      <<Rec("info", "Projector + Screen: " \o self.display.name
                                    \o " on " \o self.screen.name)>>
                      \o When(self.screen.acoustically_transparent,
                              <<Rec("info", "Acoustically Transparent Screen Detected")>>))
                 \o <<Rec("info", self.display.name \o " Optimization Guide")>>
            ELSE <<Rec("info", self.display.name \o " Settings")>>,
          display_settings |->
            When(self.display.hdmi_signal
                 \/ "hdmi_signal_format" \in self.display.recommended_settings,
                 <<"HDMI Signal Format">>)
            \o When("color_mode_sdr" \in self.display.recommended_settings,
                    <<"Picture Mode (SDR content)">>)
            \o When("color_mode_hdr" \in self.display.recommended_settings,
                    <<"Picture Mode (HDR content)">>)
            \o When("hdr10_dynamic_range" \in self.display.recommended_settings,
                    <<"HDR10 Dynamic Range">>)
            \o When("color_temp" \in self.display.recommended_settings,
                    <<"Color Temperature">>)
            \o When("gamma_sdr" \in self.display.recommended_settings,
                    <<"Gamma (SDR)">>)
            \o When("frame_interpolation" \in self.display.recommended_settings,
                    <<"Frame Interpolation / Motion Smoothing">>)
            \o When(self.display.type = "projector",
                    When("light_source_mode" \in self.display.recommended_settings,
                         <<"Light Source Mode">>)
                    \o When("aspect_ratio" \in self.display.recommended_settings,
                            <<"Aspect Ratio">>)
                    \o When(self.display.lens_memory, <<"Lens Memory">>))]

\* OPTIMIZATION_GOALS: the goals that have a _goal_ method
GoalIds ==
    {"avoid_bonk", "lldv_non_dv", "best_audio", "gaming_low_latency",
     "fix_preroll", "hdr_passthrough", "minimize_format_switch"}

\* getattr(self, f"_goal_{goal_id}", None)()
handler(goal_id, self) ==
    CASE goal_id = "avoid_bonk" -> _goal_avoid_bonk(self)
      [] goal_id = "lldv_non_dv" -> _goal_lldv_non_dv(self)
      [] goal_id = "best_audio" -> _goal_best_audio(self)
      [] goal_id = "gaming_low_latency" -> _goal_gaming_low_latency(self)
      [] goal_id = "fix_preroll" -> _goal_fix_preroll(self)
      [] goal_id = "hdr_passthrough" -> _goal_hdr_passthrough(self)
      [] goal_id = "minimize_format_switch" -> _goal_minimize_format_switch(self)

\* recommendations.extend / vrroom_settings.update / source_settings.extend
Extend(acc, part) ==
    Partial(acc.recommendations \o part.recommendations,
            update(acc.vrroom_settings, part.vrroom_settings),
            acc.source_settings \o part.source_settings)

\* the loop over self.goals, from goal i on
RECURSIVE Goals(_, _, _)
Goals(self, i, acc) ==
    IF i > Len(self.goals) THEN acc
    ELSE IF self.goals[i] \notin GoalIds THEN Goals(self, i + 1, acc)
    ELSE Goals(self, i + 1, Extend(acc, handler(self.goals[i], self)))

\* items[i] for every i whose key was not seen before i
RECURSIVE UniqueFrom(_, _, _)
UniqueFrom(items, keys, i) ==
    IF i > Len(items) THEN <<>>
    ELSE (IF \E j \in 1..(i - 1) : keys[j] = keys[i] THEN <<>> ELSE <<items[i]>>)
         \o UniqueFrom(items, keys, i + 1)

\* variant: keeps an item when its key does not come again
RECURSIVE UniqueKeepLastFrom(_, _, _)
UniqueKeepLastFrom(items, keys, i) ==
    IF i > Len(items) THEN <<>>
    ELSE (IF \E j \in (i + 1)..Len(items) : keys[j] = keys[i]
          THEN <<>> ELSE <<items[i]>>)
         \o UniqueKeepLastFrom(items, keys, i + 1)

UniqueKeepLast(items, keys) == UniqueKeepLastFrom(items, keys, 1)

Unique(items, keys) == UniqueFrom(items, keys, 1)

RecKey(rec) == rec.title

SrcKey(s) == <<s.setting, s.device>>

unique_recs(recommendations) ==
    Unique(recommendations, [i \in DOMAIN recommendations |-> RecKey(recommendations[i])])

unique_src(source_settings) ==
    Unique(source_settings, [i \in DOMAIN source_settings |-> SrcKey(source_settings[i])])

\* everything generate() has gathered before it removes duplicates
Gathered(self) ==
    LET m == Extend(Goals(self, 1, Partial(<<>>, EmptyDict, <<>>)),
                   _general_equipment_recs(self))
    IN  [recommendations |-> m.recommendations
                             \o _avr_config_recs(self).recommendations
                             \o _display_config_recs(self).recommendations,
         vrroom_settings |-> m.vrroom_settings,
         source_settings |-> m.source_settings]

generate(self, g) ==
    [recommendations |-> unique_recs(g.recommendations),
     vrroom_settings |-> g.vrroom_settings,
     source_settings |-> unique_src(g.source_settings),
     avr_settings |-> _avr_config_recs(self).avr_settings,
     display_settings |-> _display_config_recs(self).display_settings,
     download_filename |-> IF g.vrroom_settings # EmptyDict
                           THEN "vrroom_recommended_{uuid}.json" ELSE None]

\* the file generate() writes under exports/
RecommendedFile(g) ==
    IF g.vrroom_settings # EmptyDict
    THEN <<[name |-> "vrroom_recommended_{uuid}.json", content |-> g.vrroom_settings]>>
    ELSE <<>>

MaxGoals == 3

GoalLists ==
    UNION {[1..n -> GoalIds \cup {"unknown_goal"}] : n \in 0..MaxGoals}

Equipment ==
    { [display |-> "", hdfury_device |-> "", avr |-> "", speakers |-> "",
       screen |-> "", sources |-> <<>>, media_servers |-> <<>>],
      [display |-> "jvc_dla_nz8", hdfury_device |-> "vrroom",
       avr |-> "denon_avr_x3800h", speakers |-> "atmos_5_2_2",
       screen |-> "screen_120_at", sources |-> <<"apple_tv_4k", "xbox_series_x">>,
       media_servers |-> <<"emby">>],
      [display |-> "lg_c3_oled", hdfury_device |-> "vrroom",
       avr |-> "yamaha_rx_a4a", speakers |-> "soundbar_basic",
       screen |-> "", sources |-> <<"xbox_series_x", "nvidia_shield_pro">>,
       media_servers |-> <<"plex">>],
      [display |-> "jvc_dla_nz8", hdfury_device |-> "arcana", avr |-> "",
       speakers |-> "soundbar_basic", screen |-> "",
       sources |-> <<"ps5", "", "ps5">>, media_servers |-> <<>>],
      [display |-> "samsung_qn90c", hdfury_device |-> "vrroom", avr |-> "",
       speakers |-> "", screen |-> "", sources |-> <<"ps5">>,
       media_servers |-> <<"unknown_server", "plex">>],
      [display |-> "unknown_display", hdfury_device |-> "", avr |-> "",
       speakers |-> "atmos_5_2_2", screen |-> "",
       sources |-> <<"unknown_source", "apple_tv_4k">>, media_servers |-> <<>>] }

\* the JSON bodies posted to /api/setup/recommend; <<>> is an empty body
Setups == {<<>>} \cup {[e |-> e, goals |-> gl] : e \in Equipment, gl \in GoalLists}

SetupOf(body) ==
    [display |-> body.e.display, hdfury_device |-> body.e.hdfury_device,
     avr |-> body.e.avr, speakers |-> body.e.speakers, screen |-> body.e.screen,
     sources |-> body.e.sources, media_servers |-> body.e.media_servers,
     goals |-> body.goals]

RecommendCall(data) == [NewCall("setup_recommend", None) EXCEPT !.patch = data]

Recommended200(r, c, self, g) ==
    /\ pc' = [pc EXCEPT ![r] = "done"]
    /\ call' = [call EXCEPT ![r] = c]
    /\ local' = [local EXCEPT ![r] = g]
    /\ result' = [result EXCEPT ![r] = [status |-> 200, results |-> generate(self, g)]]
    /\ log' = [log EXCEPT ![r] = RecommendedFile(g)]
    /\ UNCHANGED <<conn, net, idx, faults>>

\* POST /api/setup/recommend
setup_recommend(r) ==
    /\ pc[r] = "idle"
    /\ \E body \in Setups :
         \/ /\ body = <<>>
            /\ Reject(r, RecommendCall(<<>>), 400, "No setup data provided")
         \/ /\ body # <<>>
            /\ Recommended200(r, RecommendCall(SetupOf(body)),
                              SetupRecommendationEngine(SetupOf(body)),
                              Gathered(SetupRecommendationEngine(SetupOf(body))))

NextRecommend == setup_recommend("r1")

SpecRecommend == Init /\ [][NextRecommend]_vars

\* the request of run r was answered with generated recommendations
Generated(r) ==
    pc[r] = "done" /\ call[r].name = "setup_recommend" /\ result[r].status = 200

KeysOf(items, kind) ==
    [i \in DOMAIN items |-> IF kind = "title" THEN RecKey(items[i]) ELSE SrcKey(items[i])]

\* position in `all` of the first item that has the key of out[i]
FirstAt(all, out, kind, i) ==
    CHOOSE p \in DOMAIN all :
       /\ KeysOf(all, kind)[p] = KeysOf(out, kind)[i]
       /\ \A q \in 1..(p - 1) : KeysOf(all, kind)[q] # KeysOf(out, kind)[i]

\* out holds, for every key of all, the first item of all with that key, in
\* the order in which the keys first appear in all
FirstOccurrences(all, out, kind) ==
    /\ \A i, j \in DOMAIN out : i # j => KeysOf(out, kind)[i] # KeysOf(out, kind)[j]
    /\ \A p \in DOMAIN all : \E i \in DOMAIN out : KeysOf(out, kind)[i] = KeysOf(all, kind)[p]
    /\ \A i \in DOMAIN out : \E p \in DOMAIN all : KeysOf(all, kind)[p] = KeysOf(out, kind)[i]
    /\ \A i \in DOMAIN out : out[i] = all[FirstAt(all, out, kind, i)]
    /\ \A i, j \in DOMAIN out : i < j => FirstAt(all, out, kind, i) < FirstAt(all, out, kind, j)

\* C14: in the synthesis result no two recommendations share a title and no
\* two device-setting suggestions share the pair (setting, device); of the
\* entries that collide the first one in merge order is kept, and the kept
\* entries stand in the order of their first occurrence.
C14_FirstOccurrenceKept ==
    \A r \in Runs :
       Generated(r)
       => /\ FirstOccurrences(local[r].recommendations,
                              result[r].results.recommendations, "title")
          /\ FirstOccurrences(local[r].source_settings,
                              result[r].results.source_settings, "setting")

\* Two goals suggested different values for the same setting of the same
\* device, a title was produced twice, and the answer keeps one of each.
C14_Witness ==
    /\ Generated("r1")
    /\ \E i, j \in DOMAIN local["r1"].source_settings :
          /\ i < j
          /\ SrcKey(local["r1"].source_settings[i]) = SrcKey(local["r1"].source_settings[j])
          /\ local["r1"].source_settings[i].value # local["r1"].source_settings[j].value
          /\ \E k \in DOMAIN result["r1"].results.source_settings :
                result["r1"].results.source_settings[k] = local["r1"].source_settings[i]
    /\ Len(result["r1"].results.recommendations) < Len(local["r1"].recommendations)
    /\ Len(result["r1"].results.recommendations) > 0

\* the engine of the request run r answered
EngineOf(r) == SetupRecommendationEngine(call[r].patch)

\* C15: for every selected goal, every key and value its handler puts in its
\* partial settings patch is in the merged settings patch of the answer,
\* whatever other goals were selected with it.
C15_NoGoalSuppressed ==
    \A r \in Runs :
       Generated(r)
       => \A i \in DOMAIN call[r].patch.goals :
             call[r].patch.goals[i] \in GoalIds
             => \A k \in DOMAIN handler(call[r].patch.goals[i], EngineOf(r)).vrroom_settings :
                   /\ k \in DOMAIN result[r].results.vrroom_settings
                   /\ result[r].results.vrroom_settings[k]
                        = handler(call[r].patch.goals[i], EngineOf(r)).vrroom_settings[k]

\* Every key a selected goal's handler sets is a key of the merged patch.
C15_KeysKept ==
    \A r \in Runs :
       Generated(r)
       => \A i \in DOMAIN call[r].patch.goals :
             call[r].patch.goals[i] \in GoalIds
             => DOMAIN handler(call[r].patch.goals[i], EngineOf(r)).vrroom_settings
                   \subseteq DOMAIN result[r].results.vrroom_settings

\* the orderings of a list of n goals
Orderings(n) == {p \in [1..n -> 1..n] : \A i, j \in 1..n : p[i] = p[j] => i = j}

\* the setup with its goal list reordered by p
Reordered(setup, p) == [setup EXCEPT !.goals = [i \in DOMAIN p |-> setup.goals[p[i]]]]

\* C26: for a fixed equipment selection the merged settings patch of the
\* answer is the same for every ordering of the same goals.
C26_OrderIndependent ==
    \A r \in Runs :
       Generated(r)
       => \A p \in Orderings(Len(call[r].patch.goals)) :
             Gathered(SetupRecommendationEngine(Reordered(call[r].patch, p))).vrroom_settings
                = result[r].results.vrroom_settings

\* Reordering the goals never changes which keys the merged patch has.
C26_SameKeys ==
    \A r \in Runs :
       Generated(r)
       => \A p \in Orderings(Len(call[r].patch.goals)) :
             DOMAIN Gathered(SetupRecommendationEngine(Reordered(call[r].patch, p))).vrroom_settings
                = DOMAIN result[r].results.vrroom_settings

\* C27: for every equipment selection and every goal list the merged
\* settings patch has hdcpmode "auto"; it is never empty, so every synthesis
\* writes one settings file and returns its name.
C27_PatchNeverEmpty ==
    \A r \in Runs :
       (pc[r] = "done" /\ call[r].name = "setup_recommend" /\ call[r].patch # <<>>)
       => /\ result[r].status = 200
          /\ K_hdcpmode \in DOMAIN result[r].results.vrroom_settings
          /\ result[r].results.vrroom_settings[K_hdcpmode] = Str("auto")
          /\ result[r].results.download_filename # None
          /\ Len(log[r]) = 1
          /\ log[r][1].name = result[r].results.download_filename
          /\ log[r][1].content = result[r].results.vrroom_settings

\* No equipment and no goals: the patch is hdcpmode alone, and it is written.
C27_Witness ==
    /\ Generated("r1")
    /\ call["r1"].patch.goals = <<>>
    /\ call["r1"].patch.display = "" /\ call["r1"].patch.hdfury_device = ""
    /\ call["r1"].patch.avr = "" /\ call["r1"].patch.sources = <<>>
    /\ DOMAIN result["r1"].results.vrroom_settings = {K_hdcpmode}
    /\ Len(log["r1"]) = 1

\* ---------------------------------------------------------------------------
\* The unmute delay thresholds of the config analysis
\* ---------------------------------------------------------------------------
\* a snapshot was submitted for analysis by run r
Submitted(r) == pc[r] = "done" /\ call[r].name = "analyze_config" /\ call[r].file = "json"

\* unmutedelay read as an integer, 0 when missing or unparseable
UnmuteRead(config) == IntOrZero(Get(config, K_unmutedelay, Num(0)))

\* the issues of an analyzer that are about unmutedelay
UnmuteIssues(self) ==
    SelectSeq(self.issues,
              LAMBDA i : "setting" \in DOMAIN i /\ i.setting = K_unmutedelay)

OneIssue(issues, severity, recommended) ==
    /\ Len(issues) = 1
    /\ issues[1].severity = severity
    /\ "recommended_value" \in DOMAIN issues[1]
    /\ issues[1].recommended_value = Num(recommended)

Thresholds(delay, issues) ==
    IF delay > 500 THEN OneIssue(issues, SEVERITY_CRITICAL, 250)
    ELSE IF delay = 0 THEN OneIssue(issues, SEVERITY_INFO, 150)
    ELSE issues = <<>>

\* C25: for every snapshot, with unmutedelay read as an integer (0 when it is
\* missing or unparseable), the unmute delay check yields exactly one critical
\* issue recommending 250 for a value above 500, exactly one info issue
\* recommending 150 for 0, and no unmutedelay issue for any other value.
C25_UnmuteThresholds ==
    \A r \in Runs :
       Submitted(r)
       => /\ _check_unmute_delays(call[r].config, VrroomConfigAnalyzer(1)).raised = None
          /\ Thresholds(UnmuteRead(call[r].config),
                        UnmuteIssues(_check_unmute_delays(call[r].config,
                                                          VrroomConfigAnalyzer(1))))

\* Where the check returns, the thresholds are as stated.
C25_ThresholdsWhereReturned ==
    \A r \in Runs :
       (Submitted(r)
          /\ _check_unmute_delays(call[r].config, VrroomConfigAnalyzer(1)).raised = None)
       => Thresholds(UnmuteRead(call[r].config),
                     UnmuteIssues(_check_unmute_delays(call[r].config,
                                                       VrroomConfigAnalyzer(1))))

\* The thresholds were exercised at 500 (nothing) and at 501 (critical).
C25_BoundaryReached ==
    /\ Submitted("r1")
    /\ UnmuteRead(call["r1"].config) = 501
    /\ result["r1"].status = 200
    /\ \E i \in DOMAIN result["r1"].results.issues :
          /\ "setting" \in DOMAIN result["r1"].results.issues[i]
          /\ result["r1"].results.issues[i].setting = K_unmutedelay
          /\ result["r1"].results.issues[i].severity = SEVERITY_CRITICAL

\* ---------------------------------------------------------------------------
\* Reading the settings of a box that answers slowly
\* ---------------------------------------------------------------------------
NextSlow ==
    \E r \in {"r1"} :
        \/ fetch_config(r, {"boxA"})
        \/ Connect(r)
        \/ Query(r, {"ok"} \cup LateModes)

SpecSlow == Init /\ [][NextSlow]_vars

\* every run of consecutive bytes of the line the box sends in answer to
\* `command`
Pieces(d, command) ==
    {SubSeq(Reply(d, command) \o CRLF, a, b) :
        a \in 1..(Len(Reply(d, command)) + 3), b \in 0..(Len(Reply(d, command)) + 2)}

\* what get_setting makes of a response
LastWord(response) ==
    IF Len(Split(response)) >= 2 THEN Split(response)[Len(Split(response))]
    ELSE response

\* the texts a call can return from bytes of the answer to its own command
OwnTexts(d, command) ==
    {Strip(p) : p \in Pieces(d, command)} \cup {LastWord(Strip(p)) : p \in Pieces(d, command)}

\* C22: within one connection the text the i-th send_command returns is made
\* only of bytes the box sent in answer to the i-th command; an answer that
\* arrives after its command's read timed out, or in pieces, is never
\* returned for a later command nor stored under a later command's key.
C22_OwnReplyOnly ==
    \A r \in Runs :
       call[r].name = "fetch_config"
       => /\ \A i \in DOMAIN log[r] :
                ~log[r][i].raised
                => log[r][i].value \in OwnTexts(call[r].ip_address, log[r][i].command)
          /\ pc[r] \in {"run", "done"} /\ local[r] # <<>>
             => \A k \in DOMAIN local[r].settings :
                   local[r].settings[k] \in OwnTexts(call[r].ip_address, T_get_ \o k)

\* While no read has timed out, every call returns its own answer, an
\* answer that came in two segments included.
C22_OwnReplyWhileInTime ==
    \A r \in Runs :
       (call[r].name = "fetch_config"
          /\ \A i \in DOMAIN log[r] : log[r][i].mode \in {"ok", "pieces"})
       => \A i \in DOMAIN log[r] :
             /\ ~log[r][i].raised
             /\ log[r][i].value
                  \in {Strip(Reply(call[r].ip_address, log[r][i].command)),
                       LastWord(Strip(Reply(call[r].ip_address, log[r][i].command)))}

\* ---------------------------------------------------------------------------
\* A caller that holds one VrroomConnection and calls its methods in any order
\* ---------------------------------------------------------------------------
MaxCalls == 4

\* socket.close() returns or raises OSError; `except Exception: pass` catches
\* every exception class.
CloseOutcomes == {None, "OSError"}
ExceptException == {"OSError"}

\* the channel as the caller can observe it: self.socket and its socket
Channel(cn, nt, r) == [socket |-> cn[Self(r)].socket, state |-> nt[r].state]

Called(r, op, raised, cn, nt) ==
    /\ idx' = [idx EXCEPT ![r] = idx[r] + 1]
    /\ log' = [log EXCEPT ![r] = Append(@, [op |-> op, raised |-> raised,
                                            before |-> Channel(conn, net, r),
                                            after |-> Channel(cn, nt, r)])]
    /\ conn' = cn
    /\ net' = nt
    /\ UNCHANGED <<pc, call, local, result, faults>>

\* VrroomConnection(ip_address)
LifeNew(r) ==
    /\ pc[r] = "idle"
    /\ \E ip \in Devices :
         /\ pc' = [pc EXCEPT ![r] = "held"]
         /\ call' = [call EXCEPT ![r] = NewCall("VrroomConnection", ip)]
         /\ conn' = [conn EXCEPT ![Self(r)] = NewConnection(ip)]
    /\ UNCHANGED <<net, idx, local, result, log, faults>>

LifeConnect(r) ==
    /\ pc[r] = "held" /\ idx[r] < MaxCalls
    /\ \E outcome \in ConnectOutcomes :
         Called(r, "connect", connect(conn, net, Self(r), r, outcome).raised,
                connect(conn, net, Self(r), r, outcome).conn,
                connect(conn, net, Self(r), r, outcome).net)

LifeSend(r) ==
    /\ pc[r] = "held" /\ idx[r] < MaxCalls
    /\ \E mode \in {"ok", "late"} :
         Called(r, "send_command",
                send_command(conn, net, Self(r), T_get_ \o K_insel, mode).raised,
                conn,
                send_command(conn, net, Self(r), T_get_ \o K_insel, mode).net)

LifeDisconnect(r) ==
    /\ pc[r] = "held" /\ idx[r] < MaxCalls
    /\ \E outcome \in CloseOutcomes :
         Called(r, "disconnect",
                conn[Self(r)].socket # None /\ outcome \notin {None} \cup ExceptException,
                disconnect(conn, net, Self(r)).conn,
                disconnect(conn, net, Self(r)).net)

NextLife == LifeNew("r1") \/ LifeConnect("r1") \/ LifeSend("r1") \/ LifeDisconnect("r1")

SpecLife == Init /\ [][NextLife]_vars

\* C21: disconnect can be called in any state and any number of times
\* without raising; on a channel that was never connected it does nothing;
\* on a channel with a socket it closes the socket and forgets it; and a
\* call that follows another disconnect leaves the channel as it is.
C21_DisconnectIdempotent ==
    \A r \in Runs : \A i \in DOMAIN log[r] :
       (pc[r] = "held" /\ log[r][i].op = "disconnect")
       => /\ ~log[r][i].raised
          /\ log[r][i].after.socket = None
          /\ log[r][i].before.socket = None => log[r][i].after = log[r][i].before
          /\ log[r][i].before.socket # None => log[r][i].after.state = "closed"
          /\ (i > 1 /\ log[r][i - 1].op = "disconnect")
             => log[r][i].after = log[r][i].before

\* disconnect on a fresh object, then a successful connect followed by two
\* disconnects.
C21_Witness ==
    /\ pc["r1"] = "held"
    /\ Len(log["r1"]) = 4
    /\ log["r1"][1].op = "disconnect" /\ log["r1"][1].before.state = "unopened"
    /\ log["r1"][2].op = "connect" /\ ~log["r1"][2].raised
    /\ log["r1"][3].op = "disconnect" /\ log["r1"][3].before.state = "open"
    /\ log["r1"][3].after.state = "closed"
    /\ log["r1"][4].op = "disconnect"

\* ---------------------------------------------------------------------------
\* The stages of a diagnostic run against what the box answered
\* ---------------------------------------------------------------------------
InputPorts == {K_rx0, K_rx1}

\* the calls of run r that asked for the status of `port`
Asked(r, port) ==
    {i \in DOMAIN log[r] : log[r][i].command = T_get_ \o T_status \o <<SP>> \o port}

\* the entries of the chain for input `port`
StageOf(chain, port) ==
    {i \in DOMAIN chain : chain[i].type = "input" /\ chain[i].stage = S_Input \o Upper(port)}

SaysNoSignal(response) == Contains(Lower(response), T_no_signal)

IsConnected(s) == "connected" \in DOMAIN s /\ s.connected = TRUE

\* C23: for every input port whose query returned without raising, the stage
\* is recorded as disconnected exactly when the response contains "no signal"
\* in any letter case; every other response, the empty one included, is
\* parsed and recorded as connected.
C23_DisconnectedIffNoSignal ==
    \A r \in Runs :
       Diagnosed(r)
       => \A port \in InputPorts : \A i \in Asked(r, port) :
             ~log[r][i].raised
             => \A j \in StageOf(result[r].signal_chain, port) :
                   /\ IsDisconnected(result[r].signal_chain[j])
                        <=> SaysNoSignal(log[r][i].value)
                   /\ ~SaysNoSignal(log[r][i].value)
                        => /\ IsConnected(result[r].signal_chain[j])
                           /\ "hdr_format" \in DOMAIN result[r].signal_chain[j]

\* What holds instead: the stage is disconnected exactly when the response is
\* empty or contains "no signal", and connected and parsed otherwise.
C23_DisconnectedIffNoSignalOrEmpty ==
    \A r \in Runs :
       Diagnosed(r)
       => \A port \in InputPorts : \A i \in Asked(r, port) :
             ~log[r][i].raised
             => /\ Cardinality(StageOf(result[r].signal_chain, port)) = 1
                /\ \A j \in StageOf(result[r].signal_chain, port) :
                      /\ IsDisconnected(result[r].signal_chain[j])
                           <=> (log[r][i].value = <<>> \/ SaysNoSignal(log[r][i].value))
                      /\ ~IsDisconnected(result[r].signal_chain[j])
                           => /\ IsConnected(result[r].signal_chain[j])
                              /\ "hdr_format" \in DOMAIN result[r].signal_chain[j]

\* ---------------------------------------------------------------------------
\* The rule pass of the diagnostic analyzer, rule by rule
\* ---------------------------------------------------------------------------
Rules == 1..4

\* the titles of the entries each rule can add, in the order of the source
RuleTitles(n) ==
    CASE n = 1 -> {"HDR Lost in Signal Chain", "Enable HDR EDID Flag",
                   "Disable HDR Disable Setting"}
      [] n = 2 -> {"Enable Dolby Vision EDID Flag"}
      [] n = 3 -> {"Use AutoMix EDID Mode"}
      [] n = 4 -> {"No Input Signal Detected"}

\* the condition of each rule, read from the finished diagnosis
RuleApplies(r, n) ==
    CASE n = 1 -> LostInResult(r)
      [] n = 2 -> /\ result[r].hdr_status.input.format = "Dolby Vision"
                  /\ Lower(Get(result[r].settings, K_ediddvflag, <<>>)) # T_on
      [] n = 3 -> Lower(Get(result[r].settings, K_edidmode, <<>>))
                     \notin {T_automix, T_custom}
      [] n = 4 -> AllInputsDisconnected(result[r].signal_chain)

IssuesOf(r, n) ==
    Cardinality({i \in DOMAIN result[r].issues :
                    result[r].issues[i].title \in RuleTitles(n)})

RecommendationsOf(r, n) ==
    Cardinality({i \in DOMAIN result[r].recommendations :
                    result[r].recommendations[i].title \in RuleTitles(n)})

EntriesOf(r, n) == IssuesOf(r, n) + RecommendationsOf(r, n)

\* C24: in every rule pass all four rules are evaluated, the firing of one
\* not preventing a later one from firing (each rule has an entry exactly
\* when its own condition holds), and each rule adds at most one entry to the
\* issues and recommendations taken together.
C24_OneEntryPerRule ==
    \A r \in Runs :
       Diagnosed(r)
       => \A n \in Rules :
             /\ (EntriesOf(r, n) >= 1) <=> RuleApplies(r, n)
             /\ EntriesOf(r, n) <= 1

\* C24 as the rule pass has it: every rule has an entry exactly when its own
\* condition holds, whatever the other rules did; the Dolby Vision, EDID mode
\* and no-input rules add exactly one entry when they fire, and the HDR-lost
\* rule adds one issue and up to two recommendations; nothing else is added.
C24_RulesIndependent ==
    \A r \in Runs :
       Diagnosed(r)
       => /\ \A n \in Rules : (EntriesOf(r, n) >= 1) <=> RuleApplies(r, n)
          /\ \A n \in Rules \ {1} : EntriesOf(r, n) <= 1
          /\ IssuesOf(r, 1) <= 1
          /\ RecommendationsOf(r, 1) <= 2
          /\ RuleApplies(r, 1) => IssuesOf(r, 1) = 1
          /\ Len(result[r].issues) = IssuesOf(r, 1) + IssuesOf(r, 4)
          /\ Len(result[r].recommendations)
               = RecommendationsOf(r, 1) + RecommendationsOf(r, 2)
                 + RecommendationsOf(r, 3)

\* a run in which the first three rules all fire and the first adds three entries
C24_Witness ==
    /\ Diagnosed("r1")
    /\ EntriesOf("r1", 1) = 3
    /\ EntriesOf("r1", 2) = 1
    /\ EntriesOf("r1", 3) = 1

\* a run in which the EDID mode rule and the no-input rule both fire
C24_LaterRulesWitness ==
    /\ Diagnosed("r1")
    /\ EntriesOf("r1", 3) = 1
    /\ EntriesOf("r1", 4) = 1

\* ---------------------------------------------------------------------------
\* The formats a diagnostic run observed, read from the stages it recorded
\* ---------------------------------------------------------------------------
\* the stages of a kind that were parsed to a format other than SDR
NonSdrStages(chain, type) ==
    {i \in DOMAIN chain :
        /\ chain[i].type = type
        /\ "hdr_format" \in DOMAIN chain[i]
        /\ chain[i].hdr_format # "SDR"}

\* the output stages that were actually read and parsed
OutputsRead(chain) ==
    {i \in DOMAIN chain : chain[i].type = "output" /\ "hdr_format" \in DOMAIN chain[i]}

\* C29: when some connected input carries a format other than SDR and no
\* output query yielded a format other than SDR, the run in which every
\* output query raised or returned nothing included, the diagnostic run emits
\* the critical issue "HDR Lost in Signal Chain" once, the output format
\* standing at its default SDR.
C29_LostWhenNoOutputIsHdr ==
    \A r \in Runs :
       (/\ Diagnosed(r)
        /\ \E i \in NonSdrStages(result[r].signal_chain, "input") :
              IsConnected(result[r].signal_chain[i])
        /\ NonSdrStages(result[r].signal_chain, "output") = {})
       => /\ result[r].hdr_status.output.format = "SDR"
          /\ Cardinality(Titled(result[r].issues, "HDR Lost in Signal Chain")) = 1
          /\ \A i \in Titled(result[r].issues, "HDR Lost in Signal Chain") :
                result[r].issues[i].severity = "critical"

\* a run with an HDR input in which no output was read at all (one query
\* raised or stayed unanswered, the other returned nothing), and the issue
C29_Witness ==
    /\ Diagnosed("r1")
    /\ NonSdrStages(result["r1"].signal_chain, "input") # {}
    /\ OutputsRead(result["r1"].signal_chain) = {}
    /\ Titled(result["r1"].issues, "HDR Lost in Signal Chain") # {}

\* the same with an output query that raised
C29_RaisedWitness ==
    /\ C29_Witness
    /\ \E i \in DOMAIN result["r1"].signal_chain :
          /\ result["r1"].signal_chain[i].type = "output"
          /\ "error" \in DOMAIN result["r1"].signal_chain[i]

\* the connected input stages that carry a format other than SDR
HdrInputs(chain) ==
    {i \in NonSdrStages(chain, "input") : IsConnected(chain[i])}

Last(S) == CHOOSE i \in S : \A j \in S : j <= i

\* C30: the input format a diagnostic run reports is the format of the last
\* queried connected input whose parsed format is not SDR, a later input
\* overriding an earlier one, and SDR when there is none; the run never asks
\* the box which input is selected.
C30_LastHdrInputWins ==
    \A r \in Runs :
       Diagnosed(r)
       => /\ result[r].hdr_status.input.format =
                IF HdrInputs(result[r].signal_chain) = {} THEN "SDR"
                ELSE result[r].signal_chain[Last(HdrInputs(result[r].signal_chain))].hdr_format
          /\ result[r].hdr_status.input.detected
                <=> HdrInputs(result[r].signal_chain) # {}
          /\ \A i \in DOMAIN log[r] : log[r][i].command # T_get_ \o K_insel

\* a run on a box with Dolby Vision on the first input and HLG on the second
C30_Witness ==
    /\ Diagnosed("r1")
    /\ Cardinality(HdrInputs(result["r1"].signal_chain)) = 2
    /\ \E i, j \in HdrInputs(result["r1"].signal_chain) :
          /\ i < j
          /\ result["r1"].signal_chain[i].hdr_format = "Dolby Vision"
          /\ result["r1"].signal_chain[j].hdr_format = "HLG"
    /\ result["r1"].hdr_status.input.format = "HLG"

\* ---------------------------------------------------------------------------
\* What apply_settings reports for a key against what happened on the socket
\* ---------------------------------------------------------------------------
\* the exchange failed in sendall or recv (or there was no socket)
SocketError(e) == e.raised /\ e.error \in {"Communication error", "Not connected"}

\* the set commands run r has issued so far and the key each was for
Issued(r) == 1..Len(log[r])
KeyOf(r, i) == call[r].patch[i][1]

\* C28: apply_settings reports a key as applied (success true) whenever its
\* set command was written without a socket error, an empty response after
\* the read timeout and an error text included, and as not applied only when
\* sending or receiving raised.
C28_AppliedUnlessSocketError ==
    \A r \in Connected("apply_settings") :
       \A i \in Issued(r) :
          local[r].results[KeyOf(r, i)].success <=> ~SocketError(log[r][i])

\* C28 as the loop has it: a key is reported as applied exactly when
\* send_command returned, whatever it returned -- nothing, or an error
\* text --, and as not applied when sending, receiving or decoding the
\* answer raised.
C28_AppliedUnlessRaised ==
    \A r \in Connected("apply_settings") :
       \A i \in Issued(r) :
          /\ local[r].results[KeyOf(r, i)].success <=> ~log[r][i].raised
          /\ ~log[r][i].raised
               => local[r].results[KeyOf(r, i)].response = log[r][i].value
          /\ log[r][i].raised
               => /\ SocketError(log[r][i]) \/ log[r][i].error = "UnicodeDecodeError"
                  /\ local[r].results[KeyOf(r, i)].error = log[r][i].error
          /\ log[r][i].mode = "silent" /\ ~log[r][i].raised
               => log[r][i].value = <<>>

\* a finished apply in which one key was answered with an error text and
\* another not at all, both reported as applied
C28_Witness ==
    \E r \in Connected("apply_settings") :
        /\ pc[r] = "done"
        /\ \E i, j \in Issued(r) :
              /\ log[r][i].value = T_error
              /\ result[r].results[KeyOf(r, i)] = [success |-> TRUE, response |-> T_error]
              /\ log[r][j].mode = "silent"
              /\ result[r].results[KeyOf(r, j)] = [success |-> TRUE, response |-> <<>>]

\* a finished apply in which the answer to a key could not be decoded
C28_UndecodableWitness ==
    \E r \in Connected("apply_settings") :
        /\ pc[r] = "done"
        /\ \E i \in Issued(r) :
              /\ log[r][i].mode = "garbled"
              /\ ~result[r].results[KeyOf(r, i)].success

====
